---- MODULE Spec2Model ----
(***************************************************************************)
(* Load/merge engine of the messaging data warehouse (src/etl/load.py):    *)
(* SCD Type 2 dimension loads, fact deduplication and the resolution of    *)
(* business keys into surrogate keys.                                      *)
(*                                                                         *)
(* Column names are modelled as the strings they are: sequences of ASCII   *)
(* codes, so that normalize_column_name and the store's handling of        *)
(* identifier case are computed, not assumed.  Python values are records   *)
(*   [t |-> type tag, s |-> string payload (ASCII), n |-> numeric payload] *)
(* with None as NULL.  A float is counted in units of 5e-11, so that the   *)
(* tolerance 1e-10 of has_dimension_changed is two units.  A timestamp is  *)
(* a reading of the clock `now`.                                           *)
(***************************************************************************)
EXTENDS Integers, Naturals, Sequences, FiniteSets, TLC

-----------------------------------------------------------------------------
(* Bounds of the model *)

MaxRows == 3       \* rows handed to the loader in one behaviour, over all its batches
MaxRuns == 2       \* calls of load_data in a behaviour
MaxTime == 1       \* readings of datetime.now() range over 0..MaxTime

-----------------------------------------------------------------------------
(* Strings *)

c_dk_mensajero == <<100, 107, 95, 109, 101, 110, 115, 97, 106, 101, 114, 111>>   \* "dk_mensajero"
c_id_mensajero_bdo == <<105, 100, 95, 109, 101, 110, 115, 97, 106, 101, 114, 111, 95, 98, 100, 111>>   \* "id_mensajero_bdo"
c_id_ciudad_bdo == <<105, 100, 95, 99, 105, 117, 100, 97, 100, 95, 98, 100, 111>>   \* "id_ciudad_bdo"
c_salario == <<115, 97, 108, 97, 114, 105, 111>>   \* "salario"
c_fecha_inicio_validez == <<102, 101, 99, 104, 97, 95, 105, 110, 105, 99, 105, 111, 95, 118, 97, 108, 105, 100, 101, 122>>   \* "fecha_inicio_validez"
c_fecha_fin_validez == <<102, 101, 99, 104, 97, 95, 102, 105, 110, 95, 118, 97, 108, 105, 100, 101, 122>>   \* "fecha_fin_validez"
c_flag_registro_actual == <<102, 108, 97, 103, 95, 114, 101, 103, 105, 115, 116, 114, 111, 95, 97, 99, 116, 117, 97, 108>>   \* "flag_registro_actual"
c_fecha_ultima_modificacion == <<102, 101, 99, 104, 97, 95, 117, 108, 116, 105, 109, 97, 95, 109, 111, 100, 105, 102, 105, 99, 97, 99, 105, 111, 110>>   \* "fecha_ultima_modificacion"
c_Flag_Registro_Actual == <<70, 108, 97, 103, 95, 82, 101, 103, 105, 115, 116, 114, 111, 95, 65, 99, 116, 117, 97, 108>>   \* "Flag_Registro_Actual"
c_Fecha_Inicio_Validez == <<70, 101, 99, 104, 97, 95, 73, 110, 105, 99, 105, 111, 95, 86, 97, 108, 105, 100, 101, 122>>   \* "Fecha_Inicio_Validez"
c_Fecha_Fin_Validez == <<70, 101, 99, 104, 97, 95, 70, 105, 110, 95, 86, 97, 108, 105, 100, 101, 122>>   \* "Fecha_Fin_Validez"
c_Fecha_Creacion == <<70, 101, 99, 104, 97, 95, 67, 114, 101, 97, 99, 105, 111, 110>>   \* "Fecha_Creacion"
c_Fecha_Ultima_Modificacion == <<70, 101, 99, 104, 97, 95, 85, 108, 116, 105, 109, 97, 95, 77, 111, 100, 105, 102, 105, 99, 97, 99, 105, 111, 110>>   \* "Fecha_Ultima_Modificacion"
s_C1 == <<67, 49>>   \* "C1"
s_C2 == <<67, 50>>   \* "C2"
c_sk_servicio == <<115, 107, 95, 115, 101, 114, 118, 105, 99, 105, 111>>   \* "sk_servicio"
c_id_servicio_bdo == <<105, 100, 95, 115, 101, 114, 118, 105, 99, 105, 111, 95, 98, 100, 111>>   \* "id_servicio_bdo"
c_id_servicio_dbo == <<105, 100, 95, 115, 101, 114, 118, 105, 99, 105, 111, 95, 100, 98, 111>>   \* "id_servicio_dbo"
c_id_tiempo_solicitado == <<105, 100, 95, 116, 105, 101, 109, 112, 111, 95, 115, 111, 108, 105, 99, 105, 116, 97, 100, 111>>   \* "id_tiempo_solicitado"
c_estado_actual == <<101, 115, 116, 97, 100, 111, 95, 97, 99, 116, 117, 97, 108>>   \* "estado_actual"
c_fecha_creacion == <<102, 101, 99, 104, 97, 95, 99, 114, 101, 97, 99, 105, 111, 110>>   \* "fecha_creacion"
c_fecha_ultima_actualizacion == <<102, 101, 99, 104, 97, 95, 117, 108, 116, 105, 109, 97, 95, 97, 99, 116, 117, 97, 108, 105, 122, 97, 99, 105, 111, 110>>   \* "fecha_ultima_actualizacion"
c_dk_direccion == <<100, 107, 95, 100, 105, 114, 101, 99, 99, 105, 111, 110>>   \* "dk_direccion"
c_id_direccion_bdo == <<105, 100, 95, 100, 105, 114, 101, 99, 99, 105, 111, 110, 95, 98, 100, 111>>   \* "id_direccion_bdo"
c_id_direccion_origen_bdo == <<105, 100, 95, 100, 105, 114, 101, 99, 99, 105, 111, 110, 95, 111, 114, 105, 103, 101, 110, 95, 98, 100, 111>>   \* "id_direccion_origen_bdo"
c_id_direccion_destino_bdo == <<105, 100, 95, 100, 105, 114, 101, 99, 99, 105, 111, 110, 95, 100, 101, 115, 116, 105, 110, 111, 95, 98, 100, 111>>   \* "id_direccion_destino_bdo"
c_temp_direccion_origen_key == <<116, 101, 109, 112, 95, 100, 105, 114, 101, 99, 99, 105, 111, 110, 95, 111, 114, 105, 103, 101, 110, 95, 107, 101, 121>>   \* "temp_direccion_origen_key"
c_temp_direccion_destino_key == <<116, 101, 109, 112, 95, 100, 105, 114, 101, 99, 99, 105, 111, 110, 95, 100, 101, 115, 116, 105, 110, 111, 95, 107, 101, 121>>   \* "temp_direccion_destino_key"
c_dk_direccion_origen == <<100, 107, 95, 100, 105, 114, 101, 99, 99, 105, 111, 110, 95, 111, 114, 105, 103, 101, 110>>   \* "dk_direccion_origen"
c_dk_direccion_destino == <<100, 107, 95, 100, 105, 114, 101, 99, 99, 105, 111, 110, 95, 100, 101, 115, 116, 105, 110, 111>>   \* "dk_direccion_destino"
s_A1 == <<65, 49>>   \* "A1"
s_O_A1 == <<79, 45, 65, 49>>   \* "O-A1"
s_D_A1 == <<68, 45, 65, 49>>   \* "D-A1"

Underscore == 95   \* ord("_")

IsLower(ch) == ch >= 97 /\ ch <= 122
IsUpper(ch) == ch >= 65 /\ ch <= 90
ToUpper(ch) == IF IsLower(ch) THEN ch - 32 ELSE ch
ToLower(ch) == IF IsUpper(ch) THEN ch + 32 ELSE ch

\* str.split(sep): the parts of s between the separators, empty parts kept
RECURSIVE SplitFrom(_, _, _, _)
SplitFrom(s, sep, k, part) ==
    IF k > Len(s) THEN <<part>>
    ELSE IF s[k] = sep THEN <<part>> \o SplitFrom(s, sep, k + 1, <<>>)
    ELSE SplitFrom(s, sep, k + 1, Append(part, s[k]))

split(s, sep) == SplitFrom(s, sep, 1, <<>>)

\* str.capitalize(): first character upper case, the rest lower case
capitalize(p) == [k \in 1..Len(p) |-> IF k = 1 THEN ToUpper(p[k]) ELSE ToLower(p[k])]

\* sep.join(parts)
RECURSIVE join(_, _)
join(sep, parts) ==
    IF Len(parts) = 0 THEN <<>>
    ELSE IF Len(parts) = 1 THEN parts[1]
    ELSE parts[1] \o <<sep>> \o join(sep, Tail(parts))

pascal_case_of(column_name) ==
    LET parts == split(column_name, Underscore)
    IN  join(Underscore, [k \in 1..Len(parts) |-> capitalize(parts[k])])

\* the key patterns get_dimension_business_keys falls back on
common_keys ==
    LET
        c_codigo == <<99, 111, 100, 105, 103, 111>>   \* "codigo"
        c_nombre == <<110, 111, 109, 98, 114, 101>>   \* "nombre"
        c_code == <<99, 111, 100, 101>>   \* "code"
        c_name == <<110, 97, 109, 101>>   \* "name"
        c_id_externo == <<105, 100, 95, 101, 120, 116, 101, 114, 110, 111>>   \* "id_externo"
        c_external_id == <<101, 120, 116, 101, 114, 110, 97, 108, 95, 105, 100>>   \* "external_id"
    IN  <<c_codigo, c_nombre, c_code, c_name, c_id_externo, c_external_id>>

\* the unique-column patterns get_fact_table_unique_columns falls back on
common_unique ==
    LET
        c_fecha == <<102, 101, 99, 104, 97>>   \* "fecha"
        c_id_cliente == <<105, 100, 95, 99, 108, 105, 101, 110, 116, 101>>   \* "id_cliente"
        c_id_producto == <<105, 100, 95, 112, 114, 111, 100, 117, 99, 116, 111>>   \* "id_producto"
        c_id_sucursal == <<105, 100, 95, 115, 117, 99, 117, 114, 115, 97, 108>>   \* "id_sucursal"
        c_date == <<100, 97, 116, 101>>   \* "date"
        c_customer_id == <<99, 117, 115, 116, 111, 109, 101, 114, 95, 105, 100>>   \* "customer_id"
        c_product_id == <<112, 114, 111, 100, 117, 99, 116, 95, 105, 100>>   \* "product_id"
        c_store_id == <<115, 116, 111, 114, 101, 95, 105, 100>>   \* "store_id"
        c_timestamp == <<116, 105, 109, 101, 115, 116, 97, 109, 112>>   \* "timestamp"
        c_transaction_id == <<116, 114, 97, 110, 115, 97, 99, 116, 105, 111, 110, 95, 105, 100>>   \* "transaction_id"
    IN  <<c_fecha, c_id_cliente, c_id_producto, c_id_sucursal, c_date, c_customer_id,
          c_product_id, c_store_id, c_timestamp, c_transaction_id>>

\* the column names that occur in the tables, batches and configurations of
\* this model, in both spellings
ColumnNames ==
    LET written == {c_dk_mensajero, c_id_mensajero_bdo, c_id_ciudad_bdo, c_salario,
                    c_fecha_inicio_validez, c_fecha_fin_validez, c_flag_registro_actual,
                    c_fecha_ultima_modificacion, c_Fecha_Creacion,
                    c_sk_servicio, c_id_servicio_bdo, c_id_servicio_dbo,
                    c_id_tiempo_solicitado, c_estado_actual, c_fecha_creacion,
                    c_fecha_ultima_actualizacion, c_dk_direccion, c_id_direccion_bdo,
                    c_id_direccion_origen_bdo, c_id_direccion_destino_bdo,
                    c_temp_direccion_origen_key, c_temp_direccion_destino_key,
                    c_dk_direccion_origen, c_dk_direccion_destino}
                   \cup {common_keys[k] : k \in 1..Len(common_keys)}
                   \cup {common_unique[k] : k \in 1..Len(common_unique)}
    IN  written \cup {pascal_case_of(c) : c \in written}

\* pascal_case_of, computed once for the names of the model
PascalCase == [c \in ColumnNames |-> pascal_case_of(c)]

normalize_column_name(column_name) ==
    IF column_name \in ColumnNames THEN PascalCase[column_name]
    ELSE pascal_case_of(column_name)

\* an unquoted SQL identifier names a column whatever its letter case
LowerCase == [c \in ColumnNames |-> [k \in 1..Len(c) |-> ToLower(c[k])]]

FoldIdentifier(id) ==
    IF id \in ColumnNames THEN LowerCase[id] ELSE [k \in 1..Len(id) |-> ToLower(id[k])]

-----------------------------------------------------------------------------
(* Python values *)

NULL == [t |-> "null", s |-> <<>>, n |-> 0]
Str(x) == [t |-> "str", s |-> x, n |-> 0]
Num(x) == [t |-> "num", s |-> <<>>, n |-> x]
Bool(b) == [t |-> "bool", s |-> <<>>, n |-> IF b THEN 1 ELSE 0]
Ts(x) == [t |-> "ts", s |-> <<>>, n |-> x]

Timestamp_max == 99   \* pd.Timestamp.max, later than every clock reading

Abs(x) == IF x < 0 THEN 0 - x ELSE x

-----------------------------------------------------------------------------
(* DataFrames: a sequence of column labels and a sequence of rows of values *)

NaN == [t |-> "nan", s |-> <<>>, n |-> 0]   \* np.nan, pandas' missing value

Labels(seq) == {seq[k] : k \in 1..Len(seq)}

SelectIdx(n, Keep(_)) ==
    LET RECURSIVE From(_)
        From(k) == IF k > n THEN <<>>
                   ELSE IF Keep(k) THEN <<k>> \o From(k + 1) ELSE From(k + 1)
    IN  From(1)

\* the loop of normalize_dataframe_columns: the dict normalized_columns, as a
\* set of pairs <<col, pascal_case>>, and the list columns_to_drop
RECURSIVE NormalizeScan(_, _, _, _)
NormalizeScan(columns, k, normalized_columns, columns_to_drop) ==
    IF k > Len(columns)
    THEN [normalized_columns |-> normalized_columns, columns_to_drop |-> columns_to_drop]
    ELSE LET col == columns[k]
             pascal_case == normalize_column_name(col)
         IN  IF pascal_case \in {p[2] : p \in normalized_columns}
             THEN NormalizeScan(columns, k + 1, normalized_columns,
                                columns_to_drop \cup {col})
             ELSE NormalizeScan(columns, k + 1,
                                {p \in normalized_columns : p[1] # col}
                                    \cup {<<col, pascal_case>>},
                                columns_to_drop)

normalize_dataframe_columns(df) ==
    LET scan == NormalizeScan(df.columns, 1, {}, {})
        \* df.drop(columns=...) removes every column that carries a dropped label
        keep == SelectIdx(Len(df.columns),
                          LAMBDA k : df.columns[k] \notin scan.columns_to_drop)
        renamed(col) == IF \E p \in scan.normalized_columns : p[1] = col
                        THEN (CHOOSE p \in scan.normalized_columns : p[1] = col)[2]
                        ELSE col
    IN  [columns |-> [j \in 1..Len(keep) |-> renamed(df.columns[keep[j]])],
         data |-> [r \in 1..Len(df.data) |->
                      [j \in 1..Len(keep) |-> df.data[r][keep[j]]]]]

\* df.replace({np.nan: None})
replace_nan(df) ==
    [columns |-> df.columns,
     data |-> [r \in 1..Len(df.data) |->
                  [j \in 1..Len(df.data[r]) |->
                      IF df.data[r][j] = NaN THEN NULL ELSE df.data[r][j]]]]

\* one row of df.iterrows(): a Series indexed by the column labels
iterrow(df, r) == [index |-> df.columns, values |-> df.data[r]]

\* `key in row` and row[key]
InRow(key, row) == \E k \in 1..Len(row.index) : row.index[k] = key
RowGet(row, key) ==
    row.values[CHOOSE k \in 1..Len(row.index) :
                  row.index[k] = key /\ \A j \in 1..(k - 1) : row.index[j] # key]

\* row.to_dict()
to_dict(row) == [key \in Labels(row.index) |-> RowGet(row, key)]

\* del d[key]
DictDel(d, key) == [k \in DOMAIN d \ {key} |-> d[k]]

-----------------------------------------------------------------------------
(* The warehouse: schema *)

\* pk_map of get_table_primary_key, for the tables of this model; None for a
\* table it does not list
get_table_primary_key(table_name) ==
    IF table_name = "dimmensajero" THEN Str(c_dk_mensajero)
    ELSE IF table_name = "dimdireccion" THEN Str(c_dk_direccion)
    ELSE IF table_name = "fact_servicios" THEN Str(c_sk_servicio)
    ELSE NULL

\* the columns of dimmensajero that the batches of this model carry, and its
\* primary key (get_dimension_table_definition); the other columns of the
\* table are nullable and stay NULL
dimmensajero_columns ==
    {c_dk_mensajero, c_id_mensajero_bdo, c_id_ciudad_bdo, c_salario,
     c_fecha_inicio_validez, c_fecha_fin_validez, c_flag_registro_actual,
     c_fecha_ultima_modificacion}

\* nullable=False
dimmensajero_not_null ==
    {c_id_mensajero_bdo, c_fecha_inicio_validez, c_fecha_fin_validez,
     c_flag_registro_actual, c_fecha_ultima_modificacion}

\* get_dimension_business_keys: the configured list, or the common patterns
get_dimension_business_keys(configured) ==
    IF Len(configured) = 0 THEN common_keys ELSE configured

\* the business-key lists a configuration may hold for dimmensajero:
\* none (the dimension_tables entry is absent), one key, two keys
BusinessKeyConfigs ==
    {<<>>, <<c_id_mensajero_bdo>>, <<c_id_mensajero_bdo, c_id_ciudad_bdo>>}

\* The letter case under which the store reports column names in a result
\* row: "lower" as get_dimension_table_definition declares them, "pascal"
\* when the table was created by a script that spells them as the loader
\* does.  The primary key and the other columns may differ.
StoreCases ==
    {[pk |-> "lower", attr |-> "lower"], [pk |-> "pascal", attr |-> "pascal"],
     [pk |-> "lower", attr |-> "pascal"]}

-----------------------------------------------------------------------------
(* State *)

VARIABLES
    store_case,      \* how the store spells column names in result rows
    business_keys_cfg, \* config['dimension_tables'][table]['business_keys']
    dimmensajero,    \* committed rows of the table, in insertion order
    conn,            \* the rows as the open connection sees them
    serial,          \* next value of the autoincrement primary key
    now,             \* the clock read by datetime.now()
    pc,              \* "idle", "mapped", "loop", "raise", "done", "failed"
    error,           \* the exception being raised, "" when none
    df,              \* the batch of the load, normalized
    i,               \* position of df.iterrows()
    result,          \* the counts of the load
    before,          \* the committed rows when the load began
    last,            \* what the load did with the row before position i
    prev,            \* batch and outcome of the load before this one
    budget,          \* rows that may still be handed to the loader
    fact_schema,     \* how the table fact_servicios came to exist
    unique_columns_cfg, \* config['fact_tables'][table]['unique_columns']
    dimdireccion,    \* committed rows of the address dimension
    fact_servicios,  \* committed rows of the fact table, in insertion order
    source,          \* the fact batch as load_fact_table received it
    tables,          \* the names of the tables that exist in the warehouse
    autocommit,      \* whether a statement outside a transaction is committed
    etl_tracking,    \* committed rows of the audit table
    run,             \* load_data: "idle", "loop", "returned", "raised"
    todo,            \* load_data: the tables its loops have yet to visit
    visited,         \* load_data: the tables visited and what became of each
    results,         \* load_data: the counts of the run
    caller,          \* what load_data handed to its caller
    run_start        \* the audit table and the tables when the run began

\* the state of the fact loader that a dimension load leaves alone
fact_vars == <<fact_schema, unique_columns_cfg, dimdireccion, fact_servicios, source>>

\* the state of load_data and of the warehouse around the tables loaded
data_vars == <<tables, autocommit, etl_tracking, run, todo, visited, results,
               caller, run_start>>

vars == <<store_case, business_keys_cfg, dimmensajero, conn, serial, now, pc,
          error, df, i, result, before, last, prev, budget, fact_vars, data_vars>>

-----------------------------------------------------------------------------
(* The warehouse: statements *)

\* the name of column c in a result row (SELECT *)
ResultName(c, pk_column) ==
    LET style == IF c = pk_column THEN store_case.pk ELSE store_case.attr
    IN  IF style = "pascal" THEN normalize_column_name(c) ELSE c

\* dict(result._mapping) of a stored row
RowMapping(r, pk_column) ==
    LET names == {ResultName(c, pk_column) : c \in DOMAIN r}
    IN  [nm \in names |-> r[CHOOSE c \in DOMAIN r : ResultName(c, pk_column) = nm]]

\* the rows of a table that satisfy `ident = value` for every pair of conds
\* and whose flag_registro_actual is TRUE when current_only
SqlWhere(rows, conds, current_only) ==
    {k \in 1..Len(rows) :
        /\ \A cnd \in conds : rows[k][FoldIdentifier(cnd[1])] = cnd[2]
        /\ current_only => rows[k][c_flag_registro_actual] = Bool(TRUE)}

\* an INSERT of the dict d is refused when it names an unknown column or
\* leaves a NOT NULL column without a value
InsertRefused(d, columns, not_null) ==
    \/ \E key \in DOMAIN d : FoldIdentifier(key) \notin columns
    \/ \E c \in not_null :
          \A key \in DOMAIN d : FoldIdentifier(key) = c => d[key] = NULL

SqlInsert(rows, d, columns, pk_column, pk_value) ==
    Append(rows,
        [c \in columns |->
            IF c = pk_column /\ ~(\E key \in DOMAIN d : FoldIdentifier(key) = c)
            THEN Num(pk_value)
            ELSE IF \E key \in DOMAIN d : FoldIdentifier(key) = c
            THEN d[CHOOSE key \in DOMAIN d : FoldIdentifier(key) = c]
            ELSE NULL])

-----------------------------------------------------------------------------
(* Dimension loader *)

\* the WHERE conditions check_dimension_exists builds: for each business key
\* found in the row under its own or its normalized name with a value that
\* is not None, the pair <<normalized name, value>>
where_conditions(row, keys) ==
    {<<normalize_column_name(keys[k]),
       IF InRow(keys[k], row) /\ RowGet(row, keys[k]) # NULL
       THEN RowGet(row, keys[k])
       ELSE RowGet(row, normalize_column_name(keys[k]))>> :
        k \in {j \in 1..Len(keys) :
                  \/ InRow(keys[j], row) /\ RowGet(row, keys[j]) # NULL
                  \/ /\ InRow(normalize_column_name(keys[j]), row)
                     /\ RowGet(row, normalize_column_name(keys[j])) # NULL}}

\* check_dimension_exists: the positions of the rows fetchone() may return;
\* the empty set stands for None (no condition, no match, or a failed query)
check_dimension_exists(rows, row, business_keys) ==
    LET conds == where_conditions(row, business_keys)
    IN  IF conds = {} THEN {}
        ELSE IF \E cnd \in conds : FoldIdentifier(cnd[1]) \notin dimmensajero_columns
        THEN {}
        ELSE SqlWhere(rows, conds, TRUE)

Tolerance == 2   \* 1e-10, in units of 5e-11

\* isinstance(v, (int, float)) for the values compared in this model
IsNumber(v) == v.t = "num"

\* the comparison of one column in has_dimension_changed
ValueChanged(new_value, existing_value) ==
    IF new_value # existing_value
    THEN IF IsNumber(new_value) /\ IsNumber(existing_value)
         THEN Abs(new_value.n - existing_value.n) > Tolerance
         ELSE TRUE
    ELSE FALSE

has_dimension_changed(table_name, new_row, existing_record, business_keys) ==
    LET exclude_columns ==
            {Str(business_keys[k]) : k \in 1..Len(business_keys)}
                \cup {get_table_primary_key(table_name),
                      Str(c_Flag_Registro_Actual), Str(c_Fecha_Inicio_Validez),
                      Str(c_Fecha_Fin_Validez), Str(c_Fecha_Creacion),
                      Str(c_Fecha_Ultima_Modificacion)}
    IN  \E k \in 1..Len(new_row.index) :
            LET col == new_row.index[k]
                col_pascal == normalize_column_name(col)
            IN  /\ Str(col_pascal) \notin exclude_columns
                /\ col_pascal \in DOMAIN existing_record
                /\ ValueChanged(RowGet(new_row, col), existing_record[col_pascal])

\* an UPDATE without its WHERE clause: every row is closed
expire_every_row(rows, pk_column, pk_value, current_datetime) ==
    [k \in 1..Len(rows) |->
        [rows[k] EXCEPT ![c_flag_registro_actual] = Bool(FALSE),
                        ![c_fecha_fin_validez] = Ts(current_datetime),
                        ![c_fecha_ultima_modificacion] = Ts(current_datetime)]]

\* expire_current_record: the UPDATE of the current row with this primary key
expire_current_record(rows, pk_column, pk_value, current_datetime) ==
    [k \in 1..Len(rows) |->
        IF rows[k][pk_column] = pk_value /\ rows[k][c_flag_registro_actual] = Bool(TRUE)
        THEN [rows[k] EXCEPT ![c_flag_registro_actual] = Bool(FALSE),
                             ![c_fecha_fin_validez] = Ts(current_datetime),
                             ![c_fecha_ultima_modificacion] = Ts(current_datetime)]
        ELSE rows[k]]

\* the dict insert_new_dimension_record sends: the row without the primary
\* key under its own and its normalized name
dimension_row_dict(row, pk_column) ==
    LET row_dict == to_dict(row)
    IN  DictDel(DictDel(row_dict, pk_column), normalize_column_name(pk_column))

\* the key under which load_dimension_table counts an updated row
updated_counter_key == "rows_update"

EmptyResult == [rows_loaded |-> 0, rows_updated |-> 0, rows_skipped |-> 0]

table_name == "dimmensajero"
pk_column == get_table_primary_key(table_name).s
business_keys == get_dimension_business_keys(business_keys_cfg)

-----------------------------------------------------------------------------
(* Batches, as transform_generic_dimension hands them over *)

dimension_batch_columns ==
    <<c_id_mensajero_bdo, c_id_ciudad_bdo, c_salario, c_fecha_inicio_validez,
      c_fecha_fin_validez, c_flag_registro_actual, c_fecha_ultima_modificacion>>

\* a row stamped by the transformation at time t: the SCD Type 2 fields are
\* those transform_generic_dimension adds
CurrentRow(id, ciudad, salario, t) ==
    <<id, ciudad, Num(salario), Ts(t), Ts(Timestamp_max), Bool(TRUE), Ts(t)>>

\* a row whose SCD Type 2 fields come from the transformation query: a
\* version that is already closed
ClosedRow(id, ciudad, salario, t) ==
    <<id, ciudad, Num(salario), Ts(t), Ts(t), Bool(FALSE), Ts(t)>>

BaseSalary == 10 * Tolerance   \* a salary of 1e-9

\* three salaries of courier C1 that differ by the tolerance, by more and by
\* less; a second courier whose city is missing; a closed version
DimensionRows(t) ==
    {CurrentRow(Str(s_C1), Num(1), BaseSalary, t),
     CurrentRow(Str(s_C1), Num(1), BaseSalary + Tolerance, t),
     CurrentRow(Str(s_C1), Num(1), BaseSalary + Tolerance + 1, t),
     CurrentRow(Str(s_C2), NaN, BaseSalary, t),
     ClosedRow(Str(s_C1), Num(1), BaseSalary, t)}

\* the batches of n rows transformed at time t
DimensionBatches(t, n) ==
    {[columns |-> dimension_batch_columns, data |-> rows] :
        rows \in [1..n -> DimensionRows(t)]}

\* what load_dimension_table makes of each batch before it opens the table:
\* df = normalize_dataframe_columns(df); df = df.replace({np.nan: None})
prepared_dimension_batches ==
    [t \in 0..MaxTime |-> [n \in 1..MaxRows |->
        {replace_nan(normalize_dataframe_columns(b)) : b \in DimensionBatches(t, n)}]]

-----------------------------------------------------------------------------
(* load_dimension_table *)

\* what the loop did with a row: the operation, the position of the row in
\* df, the primary key of the record it matched and of the record it inserted
NoRow == [op |-> "none", row |-> 0, matched |-> 0, inserted |-> 0]

\* tracking_table of update_etl_tracking when the configuration names none
tracking_table == "ETL_Tracking"

\* the tables map_keys_for_fact_servicios reads
resolver_tables ==
    {"dimcliente", "dimusuario", "dimmensajero", "dimdireccion", "dimtipopago",
     "dimtipovehiculo"}

\* the results dict of load_data before its loops
EmptyResults ==
    [tables_loaded |-> 0, rows_loaded |-> 0, rows_updated |-> 0, rows_skipped |-> 0]

\* nothing has been handed to a caller of load_data
NoCall == [kind |-> "none", results |-> <<>>, error |-> ""]

\* load_data has not been called
NoRunYet ==
    /\ etl_tracking = <<>>
    /\ run = "idle"
    /\ todo = <<>>
    /\ visited = <<>>
    /\ results = EmptyResults
    /\ caller = NoCall
    /\ run_start = [n |-> 0, dimensions |-> <<>>, etl_tracking |-> <<>>,
                    tables |-> {}, dimmensajero |-> <<>>, fact_servicios |-> <<>>]

Init ==
    /\ store_case \in StoreCases
    /\ business_keys_cfg \in BusinessKeyConfigs
    /\ dimmensajero = <<>>
    /\ conn = <<>>
    /\ serial = 1
    /\ now = 0
    /\ pc = "idle"
    /\ error = ""
    /\ df = [columns |-> <<>>, data |-> <<>>]
    /\ i = 1
    /\ result = EmptyResult
    /\ before = <<>>
    /\ last = NoRow
    /\ prev = [df |-> [columns |-> <<>>, data |-> <<>>], pc |-> "idle"]
    /\ budget = MaxRows
    /\ fact_schema = "definition"
    /\ unique_columns_cfg = <<>>
    /\ dimdireccion = <<>>
    /\ fact_servicios = <<>>
    /\ source = [columns |-> <<>>, data |-> <<>>]
    /\ tables = resolver_tables \cup {"fact_servicios"}
    /\ autocommit = FALSE
    /\ NoRunYet

\* datetime.now() returns later readings as time passes between the
\* transformation of a batch and the statements of its load
Tick ==
    /\ pc = "loop" /\ i = 1
    /\ now < MaxTime
    /\ now' = now + 1
    /\ UNCHANGED <<store_case, business_keys_cfg, dimmensajero, conn, serial, pc,
                   error, df, i, result, before, last, prev, budget, fact_vars,
                   data_vars>>

\* load_dimension_table is called with a non-empty batch; the table exists;
\* the transaction begins
BeginLoad ==
    /\ pc \in {"idle", "done", "failed"}
    /\ \E n \in 1..budget :
          /\ df' \in prepared_dimension_batches[now][n]
          /\ budget' = budget - n
    /\ prev' = [df |-> df, pc |-> pc]
    /\ result' = EmptyResult
    /\ before' = dimmensajero
    /\ conn' = dimmensajero
    /\ i' = 1
    /\ last' = NoRow
    /\ pc' = "loop"
    /\ error' = ""
    /\ UNCHANGED <<store_case, business_keys_cfg, dimmensajero, serial, now, fact_vars,
                   data_vars>>

Raise(exception) ==
    /\ pc' = "raise"
    /\ error' = exception
    /\ UNCHANGED <<i, result>>

\* no current record matches: the row is inserted as a new record
InsertNew ==
    /\ pc = "loop" /\ i <= Len(df.data)
    /\ LET row == iterrow(df, i)
           row_dict == dimension_row_dict(row, pk_column)
       IN  /\ check_dimension_exists(conn, row, business_keys) = {}
           /\ IF InsertRefused(row_dict, dimmensajero_columns, dimmensajero_not_null)
              THEN /\ Raise("IntegrityError")
                   /\ last' = [op |-> "error", row |-> i, matched |-> 0, inserted |-> 0]
                   /\ UNCHANGED <<conn, serial>>
              ELSE /\ conn' = SqlInsert(conn, row_dict, dimmensajero_columns,
                                        pk_column, serial)
                   /\ serial' = serial + 1
                   /\ result' = [result EXCEPT !.rows_loaded = @ + 1]
                   /\ last' = [op |-> "insert", row |-> i, matched |-> 0, inserted |-> serial]
                   /\ i' = i + 1
                   /\ UNCHANGED <<pc, error>>
    /\ UNCHANGED <<store_case, business_keys_cfg, dimmensajero, now, df,
                   before, prev, budget, fact_vars,
                   data_vars>>

\* a current record matches and no compared column differs: the row is skipped
SkipUnchanged ==
    /\ pc = "loop" /\ i <= Len(df.data)
    /\ LET row == iterrow(df, i)
       IN  \E k \in check_dimension_exists(conn, row, business_keys) :
              LET existing_record == RowMapping(conn[k], pk_column)
              IN  /\ ~has_dimension_changed(table_name, row, existing_record,
                                            business_keys)
                  /\ last' = [op |-> "skip", row |-> i, matched |-> conn[k][pk_column].n,
                              inserted |-> 0]
    /\ result' = [result EXCEPT !.rows_skipped = @ + 1]
    /\ i' = i + 1
    /\ UNCHANGED <<store_case, business_keys_cfg, dimmensajero, conn, serial, now,
                   pc, error, df, before, prev, budget, fact_vars,
                   data_vars>>

\* a current record matches and a compared column differs: the record is
\* expired, the row inserted as the new version, and the update counted
ExpireAndInsert ==
    /\ pc = "loop" /\ i <= Len(df.data)
    /\ LET row == iterrow(df, i)
           row_dict == dimension_row_dict(row, pk_column)
       IN  \E k \in check_dimension_exists(conn, row, business_keys) :
              LET existing_record == RowMapping(conn[k], pk_column)
                  expired == expire_current_record(conn, pk_column,
                                 existing_record[pk_column], now)
              IN  /\ has_dimension_changed(table_name, row, existing_record,
                                           business_keys)
                  /\ IF pk_column \notin DOMAIN existing_record
                     THEN \* existing_record[pk_column]
                          /\ Raise("KeyError")
                          /\ last' = [op |-> "error", row |-> i, matched |-> conn[k][pk_column].n,
                                      inserted |-> 0]
                          /\ UNCHANGED <<conn, serial>>
                     ELSE IF InsertRefused(row_dict, dimmensajero_columns,
                                           dimmensajero_not_null)
                     THEN /\ Raise("IntegrityError")
                          /\ conn' = expired
                          /\ last' = [op |-> "error", row |-> i, matched |-> conn[k][pk_column].n,
                                      inserted |-> 0]
                          /\ UNCHANGED serial
                     ELSE /\ conn' = SqlInsert(expired, row_dict, dimmensajero_columns,
                                               pk_column, serial)
                          /\ serial' = serial + 1
                          /\ last' = [op |-> "update", row |-> i, matched |-> conn[k][pk_column].n,
                                      inserted |-> serial]
                          /\ IF updated_counter_key \in DOMAIN result
                             THEN /\ result' = [result EXCEPT ![updated_counter_key] = @ + 1]
                                  /\ i' = i + 1
                                  /\ UNCHANGED <<pc, error>>
                             ELSE Raise("KeyError")
    /\ UNCHANGED <<store_case, business_keys_cfg, dimmensajero, now, df,
                   before, prev, budget, fact_vars,
                   data_vars>>

\* the loop is over: the transaction commits and the load returns its result
Commit ==
    /\ pc = "loop" /\ i > Len(df.data)
    /\ dimmensajero' = conn
    /\ pc' = "done"
    /\ UNCHANGED <<store_case, business_keys_cfg, conn, serial, now, error, df, i,
                   result, before, last, prev, budget, fact_vars,
                   data_vars>>

\* an exception leaves the transaction block: the transaction is rolled back
\* and the exception raised to the caller
Rollback ==
    /\ pc = "raise"
    /\ conn' = dimmensajero
    /\ pc' = "failed"
    /\ UNCHANGED <<store_case, business_keys_cfg, dimmensajero, serial, now, error,
                   df, i, result, before, last, prev, budget, fact_vars,
                   data_vars>>

Next ==
    \/ Tick
    \/ BeginLoad
    \/ InsertNew
    \/ SkipUnchanged
    \/ ExpireAndInsert
    \/ Commit
    \/ Rollback

Spec == Init /\ [][Next]_vars

-----------------------------------------------------------------------------
(* Properties of the dimension loader *)

IsCurrent(r) == r[c_flag_registro_actual] = Bool(TRUE)

\* the value a stored row has for a business key; NULL when the table has no
\* such column
BusinessKeyValue(r, key) ==
    IF FoldIdentifier(key) \in DOMAIN r THEN r[FoldIdentifier(key)] ELSE NULL

SameBusinessKey(r1, r2) ==
    \A k \in 1..Len(business_keys) :
        BusinessKeyValue(r1, business_keys[k]) = BusinessKeyValue(r2, business_keys[k])

RowWithKey(rows, pk_value) ==
    rows[CHOOSE k \in 1..Len(rows) : rows[k][pk_column] = Num(pk_value)]

\* C1: the committed table never holds two current rows with the same
\* business-key combination.
C1_OneCurrentPerBusinessKey ==
    \A k1, k2 \in 1..Len(dimmensajero) :
        (/\ k1 # k2
         /\ IsCurrent(dimmensajero[k1]) /\ IsCurrent(dimmensajero[k2]))
        => ~SameBusinessKey(dimmensajero[k1], dimmensajero[k2])

\* the load that has just ended found one current record of courier C1 with
\* the base salary and was handed one row of C1 with a salary that differs
\* by more than the tolerance
ChangeOfOneRecord ==
    /\ pc \in {"done", "failed"}
    /\ Len(before) = 1
    /\ IsCurrent(before[1])
    /\ before[1][c_id_mensajero_bdo] = Str(s_C1)
    /\ before[1][c_salario] = Num(BaseSalary)
    /\ Len(df.data) = 1
    /\ RowGet(iterrow(df, 1), normalize_column_name(c_id_mensajero_bdo)) = Str(s_C1)
    /\ RowGet(iterrow(df, 1), normalize_column_name(c_salario))
          = Num(BaseSalary + Tolerance + 1)
    /\ RowGet(iterrow(df, 1), c_Flag_Registro_Actual) = Bool(TRUE)

\* C2: a load that changes the attribute of the one current record completes
\* and leaves the old record expired at the load time, unchanged otherwise,
\* and one new current record with the new attribute.
C2_RoundTrip ==
    ChangeOfOneRecord =>
        /\ pc = "done"
        /\ Len(dimmensajero) = 2
        /\ dimmensajero[1] =
              [before[1] EXCEPT ![c_flag_registro_actual] = Bool(FALSE),
                                ![c_fecha_fin_validez] = Ts(now),
                                ![c_fecha_ultima_modificacion] = Ts(now)]
        /\ IsCurrent(dimmensajero[2])
        /\ dimmensajero[2][c_salario] = Num(BaseSalary + Tolerance + 1)

\* C3: a load of the batch that the load before it loaded changes no row of
\* the table and counts every row as skipped.
C3_Idempotent ==
    (pc \in {"done", "failed"} /\ prev.pc = "done" /\ prev.df = df)
    => /\ pc = "done"
       /\ dimmensajero = before
       /\ result = [rows_loaded |-> 0, rows_updated |-> 0,
                    rows_skipped |-> Len(df.data)]

\* the salary of the row the loop has just handled and the salary of the
\* record it matched
LastNewSalary == RowGet(iterrow(df, last.row), normalize_column_name(c_salario)).n
LastOldSalary == RowWithKey(conn, last.matched)[c_salario].n

\* C8: a row whose salary differs from the matched record's by less than the
\* tolerance is skipped, one whose salary differs by the tolerance or more is
\* loaded as a new version.
C8_Tolerance ==
    (pc \in {"loop", "raise"} /\ last.matched # 0)
    => /\ Abs(LastNewSalary - LastOldSalary) < Tolerance => last.op = "skip"
       /\ Abs(LastNewSalary - LastOldSalary) >= Tolerance => last.op = "update"

\* C9: when a version is expired and replaced, the new version begins when
\* the expired one ends.
C9_Contiguous ==
    (pc \in {"loop", "raise"} /\ last.op = "update")
    => RowWithKey(conn, last.inserted)[c_fecha_inicio_validez]
          = RowWithKey(conn, last.matched)[c_fecha_fin_validez]

\* the columns expire_current_record may change
ExpiryColumns == {c_flag_registro_actual, c_fecha_fin_validez, c_fecha_ultima_modificacion}

\* every row of `rows` is in `rows2` at its place: unchanged if it is expired,
\* and changed at most in the expiry columns if it is current
RowsKept(rows, rows2) ==
    /\ Len(rows2) >= Len(rows)
    /\ \A k \in 1..Len(rows) :
          /\ ~IsCurrent(rows[k]) => rows2[k] = rows[k]
          /\ \A c \in DOMAIN rows[k] \ ExpiryColumns : rows2[k][c] = rows[k][c]

\* C10: no step of a load changes an expired row, nor the surrogate key or a
\* descriptive attribute of any row, in the committed table and in the table
\* as the running transaction sees it.
C10_ExpiredRowsFrozen ==
    [][/\ RowsKept(dimmensajero, dimmensajero')
       /\ pc = "loop" => RowsKept(conn, conn')]_vars

\* a closed version is committed and the running load has expired a record
C10_Witness ==
    /\ \E k \in 1..Len(dimmensajero) : ~IsCurrent(dimmensajero[k])
    /\ pc = "raise" /\ last.op = "update"
    /\ Len(conn) > Len(dimmensajero)

-----------------------------------------------------------------------------
(* Key resolution: map_keys_for_fact_servicios *)

\* str(v) of a cell, as Series.astype(str) renders it
RECURSIVE Digits(_)
Digits(n) == IF n < 10 THEN <<48 + n>> ELSE Digits(n \div 10) \o <<48 + (n % 10)>>

astype_str(v) ==
    LET
        s_nan == <<110, 97, 110>>   \* "nan"
        s_None == <<78, 111, 110, 101>>   \* "None"
    IN
    IF v.t = "str" THEN v.s
    ELSE IF v.t = "num" THEN Digits(v.n)
    ELSE IF v.t = "nan" THEN s_nan
    ELSE s_None

\* the role tags put before the address keys
origin_tag == <<79, 45>>        \* 'O-'

\* the origin tag, put before the destination keys as well
copied_origin_tag == <<79, 45>>

destination_tag == <<68, 45>>   \* 'D-'

HasColumn(frame, col) == col \in Labels(frame.columns)

ColumnIndex(frame, col) ==
    CHOOSE k \in 1..Len(frame.columns) :
        frame.columns[k] = col /\ \A j \in 1..(k - 1) : frame.columns[j] # col

RECURSIVE Flatten(_)
Flatten(seqs) == IF Len(seqs) = 0 THEN <<>> ELSE Head(seqs) \o Flatten(Tail(seqs))

\* pd.read_sql("SELECT key, dk FROM table"): the pairs <<key, dk>> of all rows
read_sql(rows, key, dk) == [k \in 1..Len(rows) |-> <<rows[k][key], rows[k][dk]>>]

\* df[col] = tag + df[from_col].astype(str)
with_tagged_column(frame, col, tag, from_col) ==
    [columns |-> Append(frame.columns, col),
     data |-> [r \in 1..Len(frame.data) |->
                  Append(frame.data[r],
                         Str(tag \o astype_str(frame.data[r][ColumnIndex(frame, from_col)])))]]

\* the merge with how='inner': a row of df without a match is left out
inner_merge(frame, right, left_on, right_on, dk) ==
    LET j == ColumnIndex(frame, left_on)
        added(pair) == IF left_on = right_on THEN <<pair[2]>> ELSE pair
        matches(r) == SelectIdx(Len(right), LAMBDA k : right[k][1] = frame.data[r][j])
        joined(r) ==
            [m \in 1..Len(matches(r)) |-> frame.data[r] \o added(right[matches(r)[m]])]
    IN  [columns |-> frame.columns \o added(<<right_on, dk>>),
         data |-> Flatten([r \in 1..Len(frame.data) |-> joined(r)])]

\* df.merge(right, left_on=left_on, right_on=right_on, how='left') where right
\* has the columns <<right_on, dk>>: every row of df in its order, once for
\* each row of right with its key, once with missing values when there is
\* none; on= names one column, which the result holds once
merge(frame, right, left_on, right_on, dk) ==
    LET j == ColumnIndex(frame, left_on)
        added(pair) == IF left_on = right_on THEN <<pair[2]>> ELSE pair
        matches(r) == SelectIdx(Len(right), LAMBDA k : right[k][1] = frame.data[r][j])
        joined(r) ==
            IF Len(matches(r)) = 0 THEN <<frame.data[r] \o added(<<NaN, NaN>>)>>
            ELSE [m \in 1..Len(matches(r)) |-> frame.data[r] \o added(right[matches(r)[m]])]
    IN  [columns |-> frame.columns \o added(<<right_on, dk>>),
         data |-> Flatten([r \in 1..Len(frame.data) |-> joined(r)])]

\* a drop that removes no column
keep_all_columns(frame, cols) == frame

\* df.drop(columns=cols)
drop(frame, cols) ==
    LET keep == SelectIdx(Len(frame.columns), LAMBDA k : frame.columns[k] \notin cols)
    IN  [columns |-> [j \in 1..Len(keep) |-> frame.columns[keep[j]]],
         data |-> [r \in 1..Len(frame.data) |->
                      [j \in 1..Len(keep) |-> frame.data[r][keep[j]]]]]

\* one `if col in df.columns:` block that merges on a column both sides name
resolve_key(frame, col, right, dk) ==
    IF HasColumn(frame, col) THEN merge(frame, right, col, col, dk) ELSE frame

\* one block of a role of the courier dimension: the merge, and the drop of
\* the dimension's join column
resolve_role(frame, col, right, right_on, dk) ==
    IF HasColumn(frame, col)
    THEN drop(merge(frame, right, col, right_on, dk), {right_on})
    ELSE frame

\* one block of a role of the address dimension: the tagged key, the merge
\* on it, and the drop of the dimension's join column
resolve_tagged_role(frame, col, temp, tag, right, right_on, dk) ==
    IF HasColumn(frame, col)
    THEN drop(merge(with_tagged_column(frame, temp, tag, col), right, temp, right_on, dk),
              {right_on})
    ELSE frame

\* the tables the resolver reads through the engine
Engine(direccion) ==
    [dimcliente |-> <<>>, dimusuario |-> <<>>, dimmensajero |-> <<>>,
     dimdireccion |-> direccion, dimtipopago |-> <<>>, dimtipovehiculo |-> <<>>]

map_keys_for_fact_servicios(df0, engine) ==
    LET
        c_id_cliente_bdo == <<105, 100, 95, 99, 108, 105, 101, 110, 116, 101, 95, 98, 100, 111>>   \* "id_cliente_bdo"
        c_dk_cliente == <<100, 107, 95, 99, 108, 105, 101, 110, 116, 101>>   \* "dk_cliente"
        c_id_usuario_bdo == <<105, 100, 95, 117, 115, 117, 97, 114, 105, 111, 95, 98, 100, 111>>   \* "id_usuario_bdo"
        c_dk_usuario == <<100, 107, 95, 117, 115, 117, 97, 114, 105, 111>>   \* "dk_usuario"
        c_id_mensajero_principal_bdo == <<105, 100, 95, 109, 101, 110, 115, 97, 106, 101, 114, 111, 95, 112, 114, 105, 110, 99, 105, 112, 97, 108, 95, 98, 100, 111>>   \* "id_mensajero_principal_bdo"
        c_id_mensajero_secundario_bdo == <<105, 100, 95, 109, 101, 110, 115, 97, 106, 101, 114, 111, 95, 115, 101, 99, 117, 110, 100, 97, 114, 105, 111, 95, 98, 100, 111>>   \* "id_mensajero_secundario_bdo"
        c_id_mensajero_terciario_bdo == <<105, 100, 95, 109, 101, 110, 115, 97, 106, 101, 114, 111, 95, 116, 101, 114, 99, 105, 97, 114, 105, 111, 95, 98, 100, 111>>   \* "id_mensajero_terciario_bdo"
        c_dk_mensajero_principal == <<100, 107, 95, 109, 101, 110, 115, 97, 106, 101, 114, 111, 95, 112, 114, 105, 110, 99, 105, 112, 97, 108>>   \* "dk_mensajero_principal"
        c_dk_mensajero_secundario == <<100, 107, 95, 109, 101, 110, 115, 97, 106, 101, 114, 111, 95, 115, 101, 99, 117, 110, 100, 97, 114, 105, 111>>   \* "dk_mensajero_secundario"
        c_dk_mensajero_terciario == <<100, 107, 95, 109, 101, 110, 115, 97, 106, 101, 114, 111, 95, 116, 101, 114, 99, 105, 97, 114, 105, 111>>   \* "dk_mensajero_terciario"
        c_id_tipopago_bdo == <<105, 100, 95, 116, 105, 112, 111, 112, 97, 103, 111, 95, 98, 100, 111>>   \* "id_tipopago_bdo"
        c_dk_tipopago == <<100, 107, 95, 116, 105, 112, 111, 112, 97, 103, 111>>   \* "dk_tipopago"
        c_id_tipovehiculo_bdo == <<105, 100, 95, 116, 105, 112, 111, 118, 101, 104, 105, 99, 117, 108, 111, 95, 98, 100, 111>>   \* "id_tipovehiculo_bdo"
        c_dk_tipovehiculo == <<100, 107, 95, 116, 105, 112, 111, 118, 101, 104, 105, 99, 117, 108, 111>>   \* "dk_tipovehiculo"
        dim_cliente == read_sql(engine.dimcliente, c_id_cliente_bdo, c_dk_cliente)
        dim_usuario == read_sql(engine.dimusuario, c_id_usuario_bdo, c_dk_usuario)
        dim_mensajero == read_sql(engine.dimmensajero, c_id_mensajero_bdo, c_dk_mensajero)
        dim_direccion == read_sql(engine.dimdireccion, c_id_direccion_bdo, c_dk_direccion)
        dim_tipopago == read_sql(engine.dimtipopago, c_id_tipopago_bdo, c_dk_tipopago)
        dim_tipovehiculo ==
            read_sql(engine.dimtipovehiculo, c_id_tipovehiculo_bdo, c_dk_tipovehiculo)
        df1 == resolve_key(df0, c_id_cliente_bdo, dim_cliente, c_dk_cliente)
        df2 == resolve_key(df1, c_id_usuario_bdo, dim_usuario, c_dk_usuario)
        df3 == resolve_role(df2, c_id_mensajero_principal_bdo, dim_mensajero,
                            c_id_mensajero_bdo, c_dk_mensajero_principal)
        df4 == resolve_role(df3, c_id_mensajero_secundario_bdo, dim_mensajero,
                            c_id_mensajero_bdo, c_dk_mensajero_secundario)
        df5 == resolve_role(df4, c_id_mensajero_terciario_bdo, dim_mensajero,
                            c_id_mensajero_bdo, c_dk_mensajero_terciario)
        df6 == resolve_tagged_role(df5, c_id_direccion_origen_bdo,
                                   c_temp_direccion_origen_key, origin_tag,
                                   dim_direccion, c_id_direccion_bdo,
                                   c_dk_direccion_origen)
        df7 == resolve_tagged_role(df6, c_id_direccion_destino_bdo,
                                   c_temp_direccion_destino_key, destination_tag,
                                   dim_direccion, c_id_direccion_bdo,
                                   c_dk_direccion_destino)
        df8 == resolve_key(df7, c_id_tipopago_bdo, dim_tipopago, c_dk_tipopago)
        df9 == resolve_key(df8, c_id_tipovehiculo_bdo, dim_tipovehiculo,
                           c_dk_tipovehiculo)
        \* columns_to_drop: what each block that ran has put on the list
        dropped(frame, cols) == IF HasColumn(frame, cols[1]) THEN Labels(cols) ELSE {}
        columns_to_drop ==
            dropped(df0, <<c_id_cliente_bdo>>) \cup dropped(df1, <<c_id_usuario_bdo>>)
            \cup dropped(df2, <<c_id_mensajero_principal_bdo>>)
            \cup dropped(df3, <<c_id_mensajero_secundario_bdo>>)
            \cup dropped(df4, <<c_id_mensajero_terciario_bdo>>)
            \cup dropped(df5, <<c_id_direccion_origen_bdo, c_temp_direccion_origen_key>>)
            \cup dropped(df6, <<c_id_direccion_destino_bdo, c_temp_direccion_destino_key>>)
            \cup dropped(df7, <<c_id_tipopago_bdo>>)
            \cup dropped(df8, <<c_id_tipovehiculo_bdo>>)
    IN  drop(df9, columns_to_drop)

-----------------------------------------------------------------------------
(* Fact loader *)

\* The table fact_servicios exists when a load begins.  It has the columns
\* of get_fact_table_definition ("definition"), or those of a creation
\* script that names the columns as the batches do ("script").  Of the
\* nullable columns, those the batches of this model carry are modelled.
FactSchemas == {"definition", "script"}

fact_servicios_columns(schema) ==
    {c_sk_servicio, c_dk_direccion_origen, c_dk_direccion_destino,
     c_id_tiempo_solicitado, c_estado_actual, c_fecha_creacion}
    \cup (IF schema = "definition"
          THEN {c_id_servicio_dbo, c_fecha_ultima_actualizacion}
          ELSE {c_id_servicio_bdo, c_fecha_ultima_modificacion})

\* nullable=False
fact_servicios_not_null(schema) ==
    IF schema = "definition" THEN {c_id_servicio_dbo} ELSE {c_id_servicio_bdo}

\* get_fact_table_unique_columns: the configured list, or the common patterns
get_fact_table_unique_columns(configured) ==
    IF Len(configured) = 0 THEN common_unique ELSE configured

\* the unique-column lists a configuration may hold for fact_servicios:
\* none (the fact_tables entry is absent), one column, two columns
UniqueColumnConfigs ==
    {<<>>, <<c_id_servicio_bdo>>, <<c_id_servicio_bdo, c_id_tiempo_solicitado>>}

fact_table_name == "fact_servicios"
fact_pk_column == get_table_primary_key(fact_table_name).s
unique_columns == get_fact_table_unique_columns(unique_columns_cfg)

\* check_fact_exists: the positions of the rows the query selects; the empty
\* set stands for None (no condition, no match, or a failed query)
check_fact_exists(rows, row, columns, unique_cols) ==
    LET conds == where_conditions(row, unique_cols)
    IN  IF conds = {} THEN {}
        ELSE IF \E cnd \in conds : FoldIdentifier(cnd[1]) \notin columns THEN {}
        ELSE SqlWhere(rows, conds, FALSE)

\* the dict insert_new_fact_record sends: the row without the primary key,
\* with the audit fields set to the time of the insert
fact_row_dict(row, pk, current_time) ==
    LET row_dict == DictDel(DictDel(to_dict(row), pk), normalize_column_name(pk))
        audit == {c_Fecha_Creacion, c_Fecha_Ultima_Modificacion}
    IN  [key \in DOMAIN row_dict \cup audit |->
            IF key \in audit THEN Ts(current_time) ELSE row_dict[key]]

\* an insert that overwrites the stored row of the same service, if any
upsert_fact_record(rows, row, columns, pk_value, current_time) ==
    LET d == fact_row_dict(row, fact_pk_column, current_time)
        id == normalize_column_name(c_id_servicio_bdo)
        same == {k \in 1..Len(rows) :
                    /\ c_id_servicio_bdo \in columns /\ id \in DOMAIN d
                    /\ rows[k][c_id_servicio_bdo] = d[id]}
    IN  IF same = {} THEN SqlInsert(rows, d, columns, fact_pk_column, pk_value)
        ELSE [k \in 1..Len(rows) |->
                 IF k \in same
                 THEN SqlInsert(<<>>, d, columns, fact_pk_column,
                                rows[k][fact_pk_column].n)[1]
                 ELSE rows[k]]

\* insert_new_fact_record: the INSERT of the row
insert_new_fact_record(rows, row, columns, pk_value, current_time) ==
    SqlInsert(rows, fact_row_dict(row, fact_pk_column, current_time), columns,
              fact_pk_column, pk_value)

-----------------------------------------------------------------------------
(* Fact batches and the address dimension they are resolved against *)

fact_batch_columns ==
    <<c_id_servicio_bdo, c_id_direccion_origen_bdo, c_id_direccion_destino_bdo,
      c_id_tiempo_solicitado, c_estado_actual>>

\* a service from address A1 to address A1; the same service in another
\* state; a service to an address the dimension does not hold; a row without
\* service id and origin
FactRows ==
    LET
        s_B2 == <<66, 50>>   \* "B2"
        s_x == <<120>>   \* "x"
        s_y == <<121>>   \* "y"
    IN
    {<<Num(1), Str(s_A1), Str(s_A1), Num(5), Str(s_x)>>,
     <<Num(1), Str(s_A1), Str(s_A1), Num(5), Str(s_y)>>,
     <<Num(2), Str(s_A1), Str(s_B2), NaN, Str(s_x)>>,
     <<NaN, NaN, Str(s_A1), NaN, Str(s_x)>>}

FactBatches(n) ==
    {[columns |-> fact_batch_columns, data |-> rows] : rows \in [1..n -> FactRows]}

Address(dk, id, current) ==
    [c \in {c_dk_direccion, c_id_direccion_bdo, c_flag_registro_actual} |->
        IF c = c_dk_direccion THEN Num(dk)
        ELSE IF c = c_id_direccion_bdo THEN Str(id)
        ELSE Bool(current)]

\* the address dimension when the facts are loaded: empty; one row per role
\* of A1 and a row with the bare key; two versions of the origin A1
DimDireccionTables ==
    {<<>>,
     <<Address(1, s_A1, TRUE), Address(2, s_O_A1, TRUE), Address(3, s_D_A1, TRUE)>>,
     <<Address(1, s_O_A1, FALSE), Address(2, s_O_A1, TRUE), Address(3, s_D_A1, TRUE)>>}

\* map_keys_for_fact_servicios of every batch of n rows, against each state
\* of the address dimension
mapped_fact_batches ==
    [d \in DimDireccionTables |-> [n \in 1..MaxRows |->
        {[source |-> b, df |-> map_keys_for_fact_servicios(b, Engine(d))] :
            b \in FactBatches(n)}]]

-----------------------------------------------------------------------------
(* load_fact_table *)

\* a read of a table that does not exist returns no rows
missing_table_reads_empty(existing) == FALSE

\* a pd.read_sql of map_keys_for_fact_servicios names a table that does not
\* exist: the statement fails
resolver_read_fails(existing) == ~(resolver_tables \subseteq existing)

InitFact ==
    /\ store_case = [pk |-> "lower", attr |-> "lower"]
    /\ business_keys_cfg = <<>>
    /\ dimmensajero = <<>>
    /\ conn = <<>>
    /\ serial = 1
    /\ now = 0
    /\ pc = "idle"
    /\ error = ""
    /\ df = [columns |-> <<>>, data |-> <<>>]
    /\ i = 1
    /\ result = EmptyResult
    /\ before = <<>>
    /\ last = NoRow
    /\ prev = [df |-> [columns |-> <<>>, data |-> <<>>], pc |-> "idle"]
    /\ budget = MaxRows
    /\ fact_schema \in FactSchemas
    /\ unique_columns_cfg \in UniqueColumnConfigs
    /\ dimdireccion \in DimDireccionTables
    /\ fact_servicios = <<>>
    /\ source = [columns |-> <<>>, data |-> <<>>]
    /\ tables \in {resolver_tables \cup {"fact_servicios"},
                   (resolver_tables \ {"dimdireccion"}) \cup {"fact_servicios"},
                   (resolver_tables \ {"dimtipovehiculo"}) \cup {"fact_servicios"}}
    /\ "dimdireccion" \notin tables => dimdireccion = <<>>
    /\ autocommit = FALSE
    /\ NoRunYet

\* load_fact_table is called with a non-empty batch and resolves its keys
MapKeys ==
    /\ pc \in {"idle", "done", "failed"}
    /\ ~resolver_read_fails(tables)
    /\ \E n \in 1..budget :
          /\ \E b \in mapped_fact_batches[dimdireccion][n] :
                /\ source' = b.source
                /\ df' = b.df
          /\ budget' = budget - n
    /\ prev' = [df |-> source, pc |-> pc]
    /\ result' = EmptyResult
    /\ before' = fact_servicios
    /\ i' = 1
    /\ last' = NoRow
    /\ pc' = "mapped"
    /\ error' = ""
    /\ UNCHANGED <<store_case, business_keys_cfg, dimmensajero, conn, serial, now,
                   fact_schema, unique_columns_cfg, dimdireccion, fact_servicios,
                   data_vars>>

\* load_fact_table is called with a non-empty batch and a table the resolver
\* reads does not exist: the exception of pd.read_sql leaves load_fact_table
\* before it has opened the fact table
MapKeysFails ==
    /\ pc \in {"idle", "done", "failed"}
    /\ resolver_read_fails(tables)
    /\ \E n \in 1..budget :
          /\ \E b \in mapped_fact_batches[dimdireccion][n] :
                /\ source' = b.source
                /\ df' = b.source
          /\ budget' = budget - n
    /\ prev' = [df |-> source, pc |-> pc]
    /\ result' = EmptyResult
    /\ before' = fact_servicios
    /\ i' = 1
    /\ last' = NoRow
    /\ pc' = "failed"
    /\ error' = "ProgrammingError"
    /\ UNCHANGED <<store_case, business_keys_cfg, dimmensajero, conn, serial, now,
                   fact_schema, unique_columns_cfg, dimdireccion, fact_servicios,
                   data_vars>>

\* the columns are normalized, missing values become None and the
\* transaction begins
BeginFactLoad ==
    /\ pc = "mapped"
    /\ df' = replace_nan(normalize_dataframe_columns(df))
    /\ conn' = fact_servicios
    /\ pc' = "loop"
    /\ UNCHANGED <<store_case, business_keys_cfg, dimmensajero, serial, now, error,
                   i, result, before, last, prev, budget, fact_vars,
                   data_vars>>

\* a stored row matches the row on its unique columns: the row is skipped
SkipDuplicate ==
    /\ pc = "loop" /\ i <= Len(df.data)
    /\ check_fact_exists(conn, iterrow(df, i), fact_servicios_columns(fact_schema),
                         unique_columns) # {}
    /\ result' = [result EXCEPT !.rows_skipped = @ + 1]
    /\ last' = [op |-> "skip", row |-> i, matched |-> 0, inserted |-> 0]
    /\ i' = i + 1
    /\ UNCHANGED <<store_case, business_keys_cfg, dimmensajero, conn, serial, now,
                   pc, error, df, before, prev, budget, fact_vars,
                   data_vars>>

\* no stored row matches: the row is inserted
InsertFact ==
    /\ pc = "loop" /\ i <= Len(df.data)
    /\ LET row == iterrow(df, i)
           columns == fact_servicios_columns(fact_schema)
           row_dict == fact_row_dict(row, fact_pk_column, now)
       IN  /\ check_fact_exists(conn, row, columns, unique_columns) = {}
           /\ IF InsertRefused(row_dict, columns, fact_servicios_not_null(fact_schema))
              THEN /\ Raise(IF \E key \in DOMAIN row_dict : FoldIdentifier(key) \notin columns
                            THEN "ProgrammingError" ELSE "IntegrityError")
                   /\ last' = [op |-> "error", row |-> i, matched |-> 0, inserted |-> 0]
                   /\ UNCHANGED <<conn, serial>>
              ELSE /\ conn' = insert_new_fact_record(conn, row, columns, serial, now)
                   /\ serial' = serial + 1
                   /\ result' = [result EXCEPT !.rows_loaded = @ + 1]
                   /\ last' = [op |-> "insert", row |-> i, matched |-> 0, inserted |-> serial]
                   /\ i' = i + 1
                   /\ UNCHANGED <<pc, error>>
    /\ UNCHANGED <<store_case, business_keys_cfg, dimmensajero, now, df,
                   before, prev, budget, fact_vars,
                   data_vars>>

\* the loop is over: the transaction commits and the load returns its result
CommitFact ==
    /\ pc = "loop" /\ i > Len(df.data)
    /\ fact_servicios' = conn
    /\ pc' = "done"
    /\ UNCHANGED <<store_case, business_keys_cfg, dimmensajero, conn, serial, now,
                   error, df, i, result, before, last, prev, budget, fact_schema,
                   unique_columns_cfg, dimdireccion, source, data_vars>>

\* an exception leaves the transaction block and the rows written so far
\* are committed
CommitOnError ==
    /\ pc = "raise"
    /\ fact_servicios' = conn
    /\ pc' = "failed"
    /\ UNCHANGED <<store_case, business_keys_cfg, dimmensajero, conn, serial, now,
                   error, df, i, result, before, last, prev, budget, fact_schema,
                   unique_columns_cfg, dimdireccion, source, data_vars>>

\* an exception leaves the transaction block: the transaction is rolled back
\* and the exception raised to the caller
RollbackFact ==
    /\ pc = "raise"
    /\ conn' = fact_servicios
    /\ pc' = "failed"
    /\ UNCHANGED <<store_case, business_keys_cfg, dimmensajero, serial, now, error,
                   df, i, result, before, last, prev, budget, fact_vars,
                   data_vars>>

NextFact ==
    \/ Tick
    \/ MapKeys
    \/ MapKeysFails
    \/ BeginFactLoad
    \/ SkipDuplicate
    \/ InsertFact
    \/ CommitFact
    \/ RollbackFact

SpecFact == InitFact /\ [][NextFact]_vars

-----------------------------------------------------------------------------
(* Properties of the fact loader and of the key resolution *)

\* C4: a load of the fact batch that the load before it loaded inserts no
\* row and counts every row as skipped.
C4_FactIdempotent ==
    (pc \in {"done", "failed"} /\ prev.pc = "done" /\ prev.df = source)
    => /\ pc = "done"
       /\ fact_servicios = before
       /\ result = [rows_loaded |-> 0, rows_updated |-> 0,
                    rows_skipped |-> Len(df.data)]

\* the value a stored fact row has for a unique column; NULL when the table
\* has no such column
UniqueValue(r, col) ==
    IF FoldIdentifier(col) \in DOMAIN r THEN r[FoldIdentifier(col)] ELSE NULL

SameUniqueValues(r1, r2) ==
    \A k \in 1..Len(unique_columns) :
        UniqueValue(r1, unique_columns[k]) = UniqueValue(r2, unique_columns[k])

\* C5: the committed fact table never holds two rows with the same values on
\* the unique columns of the table.
C5_NoDuplicateFacts ==
    \A k1, k2 \in 1..Len(fact_servicios) :
        k1 # k2 => ~SameUniqueValues(fact_servicios[k1], fact_servicios[k2])

\* every row of `rows` is in `rows2`, at its place and as it was
RowsUnchanged(rows, rows2) ==
    /\ Len(rows2) >= Len(rows)
    /\ \A k \in 1..Len(rows) : rows2[k] = rows[k]

\* C6: no step of a fact load changes or removes a row of the fact table, in
\* the committed table and in the table as the running transaction sees it.
C6_FactsAppendOnly ==
    [][/\ RowsUnchanged(fact_servicios, fact_servicios')
       /\ pc = "loop" => RowsUnchanged(conn, conn')]_vars

\* a load has inserted a row and then skipped a duplicate, over a committed
\* table that holds rows
C6_Witness ==
    /\ Len(fact_servicios) > 0
    /\ pc = "loop" /\ last.op = "skip"
    /\ Len(conn) > Len(fact_servicios)

\* the cell of a batch at a row and a column
Cell(frame, r, col) == frame.data[r][ColumnIndex(frame, col)]

\* the columns of a fact batch that the resolution leaves in place
kept_columns == {c_id_servicio_bdo, c_id_tiempo_solicitado, c_estado_actual}

\* row r of the resolved batch comes from row p of the source batch
DerivedFrom(frame, r, p) ==
    \A c \in kept_columns : Cell(frame, r, c) = Cell(source, p, c)

\* row p of the source batch goes from address A1 to address A1
SameAddressBothRoles(p) ==
    /\ Cell(source, p, c_id_direccion_origen_bdo) = Str(s_A1)
    /\ Cell(source, p, c_id_direccion_destino_bdo) = Str(s_A1)

\* the resolved rows that do not come from row p of the source batch
RowsOfOthers(frame, p) ==
    LET keep == SelectIdx(Len(frame.data), LAMBDA r : ~DerivedFrom(frame, r, p))
    IN  [j \in 1..Len(keep) |-> frame.data[keep[j]]]

\* the source batch without its row p
Without(p) ==
    [columns |-> source.columns,
     data |-> [k \in 1..(Len(source.data) - 1) |->
                  IF k < p THEN source.data[k] ELSE source.data[k + 1]]]

\* the other rows are resolved as they are when row p is not in the batch
OthersUnaffected(p) ==
    RowsOfOthers(df, p)
        = RowsOfOthers(map_keys_for_fact_servicios(Without(p), Engine(dimdireccion)), p)

\* the address dimension holds address A1, under some form of its key
AddressKnown ==
    \E k \in 1..Len(dimdireccion) :
        dimdireccion[k][c_id_direccion_bdo] \in {Str(s_A1), Str(s_O_A1), Str(s_D_A1)}

\* C7, as claimed: a fact row from A1 to A1 gets origin and destination keys
\* that are the surrogate key of one and the same row of dimdireccion, and
\* the other rows of the batch are resolved as without it.
C7_SameDimensionRow ==
    (pc = "mapped" /\ AddressKnown)
    => \A p \in 1..Len(source.data) :
          SameAddressBothRoles(p)
          => /\ \A r \in 1..Len(df.data) :
                   DerivedFrom(df, r, p)
                   => \E k \in 1..Len(dimdireccion) :
                         /\ dimdireccion[k][c_dk_direccion]
                               = Cell(df, r, c_dk_direccion_origen)
                         /\ dimdireccion[k][c_dk_direccion]
                               = Cell(df, r, c_dk_direccion_destino)
             /\ OthersUnaffected(p)

\* dk is the surrogate key of a row of dimdireccion with the business key
\* id, or missing when the dimension holds no such row
ResolvedTo(dk, id) ==
    IF \E k \in 1..Len(dimdireccion) : dimdireccion[k][c_id_direccion_bdo] = Str(id)
    THEN \E k \in 1..Len(dimdireccion) :
            /\ dimdireccion[k][c_id_direccion_bdo] = Str(id)
            /\ dimdireccion[k][c_dk_direccion] = dk
    ELSE dk = NaN

\* C7, amended: every row the joins make of a fact row from A1 to A1 has the
\* origin key of a dimdireccion row with the business key "O-A1" and the
\* destination key of a dimdireccion row with the business key "D-A1", which
\* are different rows (missing where the dimension has no such row), and the
\* other rows of the batch are resolved as without it.
C7_RoleTaggedRows ==
    pc = "mapped"
    => \A p \in 1..Len(source.data) :
          SameAddressBothRoles(p)
          => /\ \A r \in 1..Len(df.data) :
                   DerivedFrom(df, r, p)
                   => /\ ResolvedTo(Cell(df, r, c_dk_direccion_origen),
                                    <<79, 45, 65, 49>>)
                      /\ ResolvedTo(Cell(df, r, c_dk_direccion_destino),
                                    <<68, 45, 65, 49>>)
                      /\ Cell(df, r, c_dk_direccion_origen) # NaN
                            => Cell(df, r, c_dk_direccion_origen)
                                  # Cell(df, r, c_dk_direccion_destino)
             /\ OthersUnaffected(p)

\* a batch with a row from A1 to A1 and another row has been resolved against
\* a dimension that holds both roles of A1
C7_Witness ==
    /\ pc = "mapped"
    /\ \E p, q \in 1..Len(source.data) :
          /\ SameAddressBothRoles(p) /\ ~SameAddressBothRoles(q)
          /\ \E r \in 1..Len(df.data) :
                /\ DerivedFrom(df, r, p)
                /\ Cell(df, r, c_dk_direccion_origen) # NaN
                /\ Cell(df, r, c_dk_direccion_destino) # NaN


-----------------------------------------------------------------------------
(* What a reader of the committed table sees during and after a load *)

\* the positions of the current rows that share the business key of r
CurrentWithKey(rows, r) ==
    {k \in 1..Len(rows) : IsCurrent(rows[k]) /\ SameBusinessKey(rows[k], r)}

\* C11: a reader of the committed table, at any point of a load and after it,
\* sees exactly one current record for every business key that had one
\* current record when the load began.
C11_ReaderSeesOneCurrent ==
    \A b \in 1..Len(before) :
        Cardinality(CurrentWithKey(before, before[b])) = 1
        => Cardinality(CurrentWithKey(dimmensajero, before[b])) = 1

\* C13: a row that the loop inserted as a new record carries a value for at
\* least one of the business keys of the table.
C13_KeylessRowFlagged ==
    last.op = "insert"
    => where_conditions(iterrow(df, last.row), business_keys) # {}

\* C20: when the loop has expired a record and inserted its new version, the
\* load goes on and its result counts the row in rows_updated.
C20_UpdateCounted ==
    last.op = "update"
    => /\ pc \in {"loop", "done"}
       /\ result.rows_updated >= 1

-----------------------------------------------------------------------------
(* Fact rows whose keys the dimension does not hold *)

\* the key under which a role of the address dimension is looked up
TaggedKey(tag, v) == tag \o astype_str(v)

\* no row of dimdireccion has the tagged key
Unmatched(tag, v) ==
    \A k \in 1..Len(dimdireccion) :
        dimdireccion[k][c_id_direccion_bdo] # Str(TaggedKey(tag, v))

\* the rows of the resolved batch that come from row p of the source batch
RowsDerivedFrom(p) == {r \in 1..Len(df.data) : DerivedFrom(df, r, p)}

-----------------------------------------------------------------------------
(* The surrogate keys written to fact rows *)

\* the rows the running load has written to the fact table
WrittenRows == (Len(fact_servicios) + 1)..Len(conn)

\* the stored fact row comes from row p of the source batch
WrittenFrom(row, p) ==
    \A c \in kept_columns :
        /\ c \in DOMAIN row
        /\ row[c] = (IF Cell(source, p, c) = NaN THEN NULL ELSE Cell(source, p, c))

\* the key the row holds for a role is missing or the surrogate key of a row
\* of dimdireccion with the business key id
KeyOfRole(row, dk_col, id) ==
    row[dk_col] # NULL
    => \E j \in 1..Len(dimdireccion) :
          /\ dimdireccion[j][c_dk_direccion] = row[dk_col]
          /\ dimdireccion[j][c_id_direccion_bdo] = id

\* while a table the resolver reads does not exist, a fact load ends with an
\* error and neither the fact table nor a transaction on it holds a row
MissingDimensionFails ==
    ~(resolver_tables \subseteq tables)
    => /\ pc \in {"idle", "failed"}
       /\ pc = "failed" => error = "ProgrammingError"
       /\ fact_servicios = <<>> /\ conn = <<>>

-----------------------------------------------------------------------------
(* load_data *)

\* a table name that get_table_primary_key and the table definitions do not
\* list
unknown_table == "dim_desconocida"

\* transformed_data: the tables of its 'dimensions' and 'facts' dicts, in
\* the order of the dicts
TransformedData ==
    {[dimensions |-> <<table_name>>, facts |-> <<fact_table_name>>],
     [dimensions |-> <<table_name, unknown_table>>, facts |-> <<fact_table_name>>]}

\* the facts before the dimensions
facts_first(transformed_data) ==
    transformed_data.facts \o transformed_data.dimensions

\* the order in which the two loops of load_data visit the tables
iteration_order(transformed_data) ==
    transformed_data.dimensions \o transformed_data.facts

\* The runs of load_data are followed in one configuration: the couriers
\* have their business key configured and the store reports attribute names
\* as the loader spells them, so that a dimension load may insert, skip and
\* expire; the fact table comes from a script that names the columns as the
\* batches do, so that a fact load may complete.
InitData ==
    /\ store_case = [pk |-> "lower", attr |-> "pascal"]
    /\ business_keys_cfg = <<c_id_mensajero_bdo>>
    /\ dimmensajero = <<>>
    /\ conn = <<>>
    /\ serial = 1
    /\ now = 0
    /\ pc = "idle"
    /\ error = ""
    /\ df = [columns |-> <<>>, data |-> <<>>]
    /\ i = 1
    /\ result = EmptyResult
    /\ before = <<>>
    /\ last = NoRow
    /\ prev = [df |-> [columns |-> <<>>, data |-> <<>>], pc |-> "idle"]
    /\ budget = MaxRows
    /\ fact_schema = "script"
    /\ unique_columns_cfg = <<c_id_servicio_bdo>>
    /\ dimdireccion = <<Address(1, s_A1, TRUE), Address(2, s_O_A1, TRUE),
                        Address(3, s_D_A1, TRUE)>>
    /\ fact_servicios = <<>>
    /\ source = [columns |-> <<>>, data |-> <<>>]
    /\ tables \in {resolver_tables \cup {fact_table_name},
                   resolver_tables \cup {fact_table_name, unknown_table}}
    /\ autocommit \in BOOLEAN
    /\ NoRunYet

\* load_data is called: results is set to zero and the loops begin; no load
\* is running, and what the loads of an earlier call left behind is gone
StartRun ==
    /\ run \in {"idle", "returned", "raised"}
    /\ run_start.n < MaxRuns
    /\ \E transformed_data \in TransformedData :
          /\ todo' = iteration_order(transformed_data)
          /\ run_start' = [n |-> run_start.n + 1,
                           dimensions |-> transformed_data.dimensions,
                           etl_tracking |-> etl_tracking, tables |-> tables,
                           dimmensajero |-> dimmensajero,
                           fact_servicios |-> fact_servicios]
    /\ run' = "loop"
    /\ visited' = <<>>
    /\ results' = EmptyResults
    /\ caller' = NoCall
    /\ pc' = "idle"
    /\ error' = ""
    /\ conn' = <<>>
    /\ df' = [columns |-> <<>>, data |-> <<>>]
    /\ source' = [columns |-> <<>>, data |-> <<>>]
    /\ i' = 1
    /\ result' = EmptyResult
    /\ before' = <<>>
    /\ last' = NoRow
    /\ prev' = [df |-> [columns |-> <<>>, data |-> <<>>], pc |-> "idle"]
    /\ UNCHANGED <<store_case, business_keys_cfg, dimmensajero, serial, now, budget,
                   fact_schema, unique_columns_cfg, dimdireccion, fact_servicios,
                   tables, autocommit, etl_tracking>>

\* the committed rows of a table of this model
CommittedRows(name) ==
    IF name = table_name THEN dimmensajero
    ELSE IF name = fact_table_name THEN fact_servicios
    ELSE <<>>

\* the loop is at a table and no load of it is running
AtTable == run = "loop" /\ todo # <<>> /\ pc = "idle"

\* `if not df.empty` is false: the table is passed over
SkipEmpty ==
    /\ AtTable
    /\ visited' = Append(visited, [table |-> Head(todo), outcome |-> "empty",
                                   result |-> EmptyResult,
                                   rows |-> CommittedRows(Head(todo))])
    /\ todo' = Tail(todo)
    /\ UNCHANGED <<store_case, business_keys_cfg, dimmensajero, conn, serial, now,
                   pc, error, df, i, result, before, last, prev, budget, fact_vars,
                   tables, autocommit, etl_tracking, run, results, caller,
                   run_start>>

\* the steps of load_dimension_table for the table the loop is at
LoadDimension ==
    /\ run = "loop" /\ todo # <<>> /\ Head(todo) = table_name
    /\ \/ pc = "idle" /\ BeginLoad
       \/ InsertNew
       \/ SkipUnchanged
       \/ ExpireAndInsert
       \/ Commit
       \/ Rollback

\* the steps of load_fact_table for the table the loop is at
LoadFact ==
    /\ run = "loop" /\ todo # <<>> /\ Head(todo) = fact_table_name
    /\ \/ pc = "idle" /\ MapKeys
       \/ BeginFactLoad
       \/ SkipDuplicate
       \/ InsertFact
       \/ CommitFact
       \/ RollbackFact

\* load_dimension_table of a table without definition: when the warehouse
\* has no such table, create_dimension_table raises ValueError; when it has
\* one, the business keys are the common patterns, the primary key is None
\* and the loop begins.  The batch has one row.
BeginUnknownLoad ==
    /\ AtTable /\ Head(todo) = unknown_table
    /\ budget >= 1
    /\ df' \in prepared_dimension_batches[now][1]
    /\ budget' = budget - 1
    /\ prev' = [df |-> df, pc |-> pc]
    /\ result' = EmptyResult
    /\ before' = <<>>
    /\ conn' = <<>>
    /\ i' = 1
    /\ last' = NoRow
    /\ IF unknown_table \in tables
       THEN pc' = "loop" /\ error' = ""
       ELSE pc' = "failed" /\ error' = "ValueError"
    /\ UNCHANGED <<store_case, business_keys_cfg, dimmensajero, serial, now,
                   fact_vars, data_vars>>

\* the first row of the batch for the table without definition: none of the
\* common patterns is in the row, so the row is to be inserted, and
\* insert_new_dimension_record fails on the primary key None
UnknownRowFails ==
    /\ run = "loop" /\ todo # <<>> /\ Head(todo) = unknown_table
    /\ pc = "loop"
    /\ check_dimension_exists(conn, iterrow(df, i), get_dimension_business_keys(<<>>)) = {}
    /\ get_table_primary_key(unknown_table) = NULL
    /\ pc' = "failed"
    /\ error' = "AttributeError"
    /\ last' = [op |-> "error", row |-> i, matched |-> 0, inserted |-> 0]
    /\ UNCHANGED <<store_case, business_keys_cfg, dimmensajero, conn, serial, now,
                   df, i, result, before, prev, budget, fact_vars, data_vars>>

\* a load has returned its result: load_data adds it to results
AddResult ==
    /\ run = "loop" /\ todo # <<>> /\ pc = "done"
    /\ results' = [tables_loaded |-> results.tables_loaded + 1,
                   rows_loaded |-> results.rows_loaded + result.rows_loaded,
                   rows_updated |-> results.rows_updated + result.rows_updated,
                   rows_skipped |-> results.rows_skipped + result.rows_skipped]
    /\ visited' = Append(visited, [table |-> Head(todo), outcome |-> "loaded",
                                   result |-> result,
                                   rows |-> CommittedRows(Head(todo))])
    /\ todo' = Tail(todo)
    /\ pc' = "idle"
    /\ UNCHANGED <<store_case, business_keys_cfg, dimmensajero, conn, serial, now,
                   error, df, i, result, before, last, prev, budget, fact_vars,
                   tables, autocommit, etl_tracking, run, caller, run_start>>

\* a load has raised: load_data logs the error and raises it to its caller
Reraise ==
    /\ run = "loop" /\ todo # <<>> /\ pc = "failed"
    /\ visited' = Append(visited, [table |-> Head(todo), outcome |-> "raised",
                                   result |-> result,
                                   rows |-> CommittedRows(Head(todo))])
    /\ caller' = [kind |-> "raise", results |-> <<>>, error |-> error]
    /\ run' = "raised"
    /\ UNCHANGED <<store_case, business_keys_cfg, dimmensajero, conn, serial, now,
                   pc, error, df, i, result, before, last, prev, budget, fact_vars,
                   tables, autocommit, etl_tracking, todo, results, run_start>>

\* the row update_etl_tracking inserts; id is the SERIAL column
tracking_row(id, execution_time, load_results) ==
    [id |-> id,
     execution_time |-> execution_time,
     tables_loaded |-> load_results.tables_loaded,
     rows_loaded |-> load_results.rows_loaded,
     status |-> "Success",
     details |-> <<load_results.tables_loaded, load_results.rows_loaded>>]

\* both loops are over: update_etl_tracking executes CREATE TABLE IF NOT
\* EXISTS and the INSERT on a connection that it neither commits nor puts in
\* a transaction block, and load_data returns results.  The statements
\* stay when the library commits each of them, and are rolled back when the
\* connection closes otherwise.
UpdateTracking ==
    /\ run = "loop" /\ todo = <<>> /\ pc = "idle"
    /\ IF autocommit
       THEN /\ tables' = tables \cup {tracking_table}
            /\ etl_tracking' =
                  Append(etl_tracking,
                         tracking_row(Len(etl_tracking) + 1, now, results))
       ELSE UNCHANGED <<tables, etl_tracking>>
    /\ caller' = [kind |-> "return", results |-> <<results>>, error |-> ""]
    /\ run' = "returned"
    /\ UNCHANGED <<store_case, business_keys_cfg, dimmensajero, conn, serial, now,
                   pc, error, df, i, result, before, last, prev, budget, fact_vars,
                   autocommit, todo, visited, results, run_start>>

NextData ==
    \/ StartRun
    \/ SkipEmpty
    \/ LoadDimension
    \/ LoadFact
    \/ BeginUnknownLoad
    \/ UnknownRowFails
    \/ AddResult
    \/ Reraise
    \/ UpdateTracking

SpecData == InitData /\ [][NextData]_vars

-----------------------------------------------------------------------------
(* Properties of load_data *)

\* the dimension tables of the run
DimensionsOfRun == Labels(run_start.dimensions)

\* a fact load of the run has begun: it is running, or it has ended
FactLoadBegun ==
    \/ /\ run \in {"loop", "raised"} /\ todo # <<>>
       /\ Head(todo) \notin DimensionsOfRun
       /\ pc # "idle"
    \/ \E k \in 1..Len(visited) :
          visited[k].table \notin DimensionsOfRun /\ visited[k].outcome # "empty"

\* the entry of visited is a completed load whose rows are committed: the
\* table has as many rows more than at the start of the run as the load
\* counted, and holds them still
CommittedLoad(k) ==
    /\ visited[k].outcome = "loaded"
    /\ Len(visited[k].rows)
          = Len(run_start[visited[k].table]) + visited[k].result.rows_loaded
               + visited[k].result.rows_updated
    /\ CommittedRows(visited[k].table) = visited[k].rows

\* C12: once a fact load of a run has begun, every dimension of the run has
\* been passed over as empty or loaded and committed; a run in which a
\* dimension load raised begins no fact load.
C12_DimensionsBeforeFacts ==
    /\ FactLoadBegun
       => \A d \in DimensionsOfRun :
             \E k \in 1..Len(visited) :
                /\ visited[k].table = d
                /\ visited[k].outcome = "empty" \/ CommittedLoad(k)
    /\ (\E k \in 1..Len(visited) :
           visited[k].table \in DimensionsOfRun /\ visited[k].outcome = "raised")
       => /\ ~FactLoadBegun
          /\ fact_servicios = run_start.fact_servicios

\* a fact load is in its loop after a dimension load of the run that
\* inserted rows
C12_Witness ==
    /\ FactLoadBegun /\ pc = "loop"
    /\ \E k \in 1..Len(visited) :
          /\ visited[k].table = table_name
          /\ visited[k].outcome = "loaded"
          /\ visited[k].result.rows_loaded >= 1

\* C16: when a load of a run has raised, the committed rows of its table are
\* those from before the load, and every table loaded earlier in the run
\* holds the rows it held when its load returned.
C16_FailedLoadCommitsNothing ==
    (run \in {"loop", "raised"} /\ todo # <<>> /\ pc = "failed")
    => /\ CommittedRows(Head(todo)) = before
       /\ \A k \in 1..Len(visited) :
             visited[k].outcome = "loaded" => CommittedLoad(k)

\* a fact load has raised at a row after its first, in a run whose dimension
\* load inserted rows
C16_Witness ==
    /\ run = "raised" /\ todo # <<>> /\ Head(todo) = fact_table_name
    /\ last.op = "error" /\ last.row > 1
    /\ \E k \in 1..Len(visited) :
          /\ visited[k].table = table_name
          /\ visited[k].outcome = "loaded"
          /\ visited[k].result.rows_loaded >= 1

C18_OneAuditRowPerRun ==
    run = "returned"
    => /\ tracking_table \in tables
       /\ etl_tracking
             = Append(run_start.etl_tracking,
                      tracking_row(Len(run_start.etl_tracking) + 1, now, results))

\* C19: the load of a table for which get_table_primary_key knows no primary
\* key does not reach its loop: it ends with the ValueError of the table
\* creation.
C19_UnknownTableRejected ==
    (run = "loop" /\ todo # <<>> /\ get_table_primary_key(Head(todo)) = NULL)
    => \/ pc = "idle"
       \/ pc = "failed" /\ error = "ValueError"

-----------------------------------------------------------------------------
(* Rows inserted as brand-new dimension records *)

\* C21: a row the loop inserted because no current record matched it is
\* stored as the current version: its flag is true, its validity ends at the
\* maximum timestamp and begins at the time of the load, whatever validity
\* columns the incoming row carried; its surrogate key is the key of no other
\* row of the table, and the row is counted in rows_loaded.
C21_NewRecordIsCurrent ==
    (pc = "loop" /\ last.op = "insert")
    => LET record == RowWithKey(conn, last.inserted)
       IN  /\ record[c_flag_registro_actual] = Bool(TRUE)
           /\ record[c_fecha_fin_validez] = Ts(Timestamp_max)
           /\ record[c_fecha_inicio_validez] = Ts(now)
           /\ Cardinality({k \in 1..Len(conn) :
                             conn[k][pk_column].n = last.inserted}) = 1
           /\ result.rows_loaded >= 1

-----------------------------------------------------------------------------
(* The comparison of a row with the record it matched *)

\* the columns of the batch that are neither business keys, nor the primary
\* key, nor validity or audit columns
ComparedColumns ==
    {c_id_ciudad_bdo, c_salario}
        \ {FoldIdentifier(business_keys[k]) : k \in 1..Len(business_keys)}

\* C22: a row that matched a current record is taken as changed exactly when
\* one of its compared columns differs from the record's value by more than
\* the tolerance, whatever the letter case of the column names of the store.
C22_ChangedIffColumnDiffers ==
    (pc \in {"loop", "raise"} /\ last.op \in {"skip", "update"})
    => LET row == iterrow(df, last.row)
           record == RowWithKey(conn, last.matched)
       IN  last.op = "update"
           <=> \E c \in ComparedColumns :
                  ValueChanged(RowGet(row, normalize_column_name(c)), record[c])

-----------------------------------------------------------------------------
(* Key resolution against a dimension that holds several versions *)

\* C27: the batch the key resolution returns has one row per row of the batch
\* it was given, also when dimdireccion holds several versions of a business
\* key.
C27_OneRowPerFactRow ==
    pc = "mapped" => Len(df.data) = Len(source.data)

\* C28: the origin key of a resolved fact row is never the surrogate key of
\* an expired version of the address when the dimension also holds a current
\* version of it.
C28_ResolvesToCurrentVersion ==
    pc = "mapped"
    => \A r \in 1..Len(df.data) : \A k, c \in 1..Len(dimdireccion) :
          (/\ dimdireccion[k][c_id_direccion_bdo] = dimdireccion[c][c_id_direccion_bdo]
           /\ dimdireccion[k][c_flag_registro_actual] = Bool(FALSE)
           /\ dimdireccion[c][c_flag_registro_actual] = Bool(TRUE))
          => Cell(df, r, c_dk_direccion_origen) # dimdireccion[k][c_dk_direccion]

-----------------------------------------------------------------------------
(* The counters of a fact load that returned *)

\* C24: when load_fact_table has returned, the counters of its result add up
\* to the number of rows of the batch it was called with.
C24_CountersAddUp ==
    (pc = "done" /\ source.data # <<>>)
    => result.rows_loaded + result.rows_updated + result.rows_skipped
          = Len(source.data)

-----------------------------------------------------------------------------
(* The frame of the key resolution *)

\* the columns the resolution joins on: the business keys of the batch, the
\* join key of the dimension and the tagged keys made for the two roles
JoinColumns ==
    {c_id_direccion_origen_bdo, c_id_direccion_destino_bdo, c_id_direccion_bdo,
     c_temp_direccion_origen_key, c_temp_direccion_destino_key}

\* row r of the resolved batch has the values of row p of the source batch in
\* every column that is not joined on
SameOtherColumns(r, p) ==
    \A c \in Labels(source.columns) \ JoinColumns :
        Cell(df, r, c) = Cell(source, p, c)

\* C25: the batch the key resolution returns has none of the business-key
\* columns it joined on, not the join key of the dimension and none of the
\* tagged role keys; every other column of the batch it was given is there,
\* and every row has in these columns the values of the row it was made of.
C25_ResolutionFrame ==
    pc = "mapped"
    => /\ Labels(df.columns) \cap JoinColumns = {}
       /\ Labels(source.columns) \ JoinColumns \subseteq Labels(df.columns)
       /\ \A r \in 1..Len(df.data) : \E p \in 1..Len(source.data) :
             SameOtherColumns(r, p)
       /\ \A p \in 1..Len(source.data) : \E r \in 1..Len(df.data) :
             SameOtherColumns(r, p)

\* a batch of two different rows has been resolved and a row has got the
\* keys of both roles
C25_Witness ==
    /\ pc = "mapped"
    /\ Len(source.data) >= 2
    /\ source.data[1] # source.data[2]
    /\ \E r \in 1..Len(df.data) :
          /\ Cell(df, r, c_dk_direccion_origen) # NaN
          /\ Cell(df, r, c_dk_direccion_destino) # NaN

-----------------------------------------------------------------------------
(* normalize_dataframe_columns on frames whose column names collide *)

MaxColumns == 3

\* two spellings each of two column names
FrameLabels ==
    {c_flag_registro_actual, c_Flag_Registro_Actual,
     c_fecha_inicio_validez, c_Fecha_Inicio_Validez}

\* the frames of one row with n columns named from FrameLabels; the value of
\* a column is its position
Frames(n) ==
    {[columns |-> columns, data |-> <<[k \in 1..n |-> Num(k)]>>] :
        columns \in [1..n -> FrameLabels]}

InitFrame ==
    /\ store_case = [pk |-> "lower", attr |-> "lower"]
    /\ business_keys_cfg = <<>>
    /\ dimmensajero = <<>>
    /\ conn = <<>>
    /\ serial = 1
    /\ now = 0
    /\ pc = "frame"
    /\ error = ""
    /\ source \in UNION {Frames(n) : n \in 1..MaxColumns}
    /\ df = source
    /\ i = 1
    /\ result = EmptyResult
    /\ before = <<>>
    /\ last = NoRow
    /\ prev = [df |-> [columns |-> <<>>, data |-> <<>>], pc |-> "idle"]
    /\ budget = 0
    /\ fact_schema = "definition"
    /\ unique_columns_cfg = <<>>
    /\ dimdireccion = <<>>
    /\ fact_servicios = <<>>
    /\ tables = {}
    /\ autocommit = FALSE
    /\ NoRunYet

\* df = normalize_dataframe_columns(df), on the frame and on its result
NormalizeFrame ==
    /\ pc \in {"frame", "normalized"}
    /\ df' = normalize_dataframe_columns(df)
    /\ prev' = [df |-> df, pc |-> pc]
    /\ pc' = IF pc = "frame" THEN "normalized" ELSE "renormalized"
    /\ UNCHANGED <<store_case, business_keys_cfg, dimmensajero, conn, serial, now,
                   error, i, result, before, last, budget, fact_vars, data_vars>>

NextFrame == NormalizeFrame

SpecFrame == InitFrame /\ [][NextFrame]_vars

\* the first column of the source frame whose name normalizes to name
FirstNamed(name) ==
    CHOOSE k \in 1..Len(source.columns) :
        /\ normalize_column_name(source.columns[k]) = name
        /\ \A j \in 1..(k - 1) : normalize_column_name(source.columns[j]) # name

\* C26: the columns of a normalized frame have canonical names that differ
\* from each other; for every canonical name of a column of the input the
\* frame has the column, with the values of the first input column of that
\* name; normalizing the result again changes nothing.
C26_FirstColumnKept ==
    /\ pc \in {"normalized", "renormalized"}
       => \A k \in 1..Len(df.columns) :
             /\ df.columns[k] = normalize_column_name(df.columns[k])
             /\ \A j \in 1..(k - 1) : df.columns[j] # df.columns[k]
    /\ pc = "normalized"
       => \A name \in {normalize_column_name(c) : c \in Labels(source.columns)} :
             /\ HasColumn(df, name)
             /\ Cell(df, 1, name) = source.data[1][FirstNamed(name)]
    /\ pc = "renormalized" => df = prev.df

-----------------------------------------------------------------------------
(* Loads of rows that carry only some of their keys, against tables that hold
   a record, and existence queries that fail *)

\* rows of courier C2 without city, as stored, and with another salary; a
\* courier the table does not hold; a row without courier id
PartialKeyRows(t) ==
    {CurrentRow(Str(s_C2), NaN, BaseSalary, t),
     CurrentRow(Str(s_C2), Num(1), BaseSalary, t),
     CurrentRow(Str(s_C2), Num(1), BaseSalary + Tolerance + 1, t),
     CurrentRow(Str(s_C1), Num(1), BaseSalary, t),
     CurrentRow(NaN, Num(1), BaseSalary, t)}

\* rows of service 1 without time key and as stored; a service the table
\* does not hold; a row without service id
PartialFactRows ==
    {<<Num(1), Str(s_A1), Str(s_A1), NaN, Str(<<120>>)>>,
     <<Num(1), Str(s_A1), Str(s_A1), Num(5), Str(<<120>>)>>,
     <<Num(2), Str(s_A1), Str(s_A1), Num(5), Str(<<120>>)>>,
     <<NaN, Str(s_A1), Str(s_A1), Num(5), Str(<<120>>)>>}

\* dimmensajero holds the current record of courier C2 in city 1,
\* fact_servicios the row of service 1 at time 5; one of the two tables is
\* loaded, under each configuration of its keys
InitKeys ==
    LET stored_courier ==
            replace_nan(normalize_dataframe_columns(
                [columns |-> dimension_batch_columns,
                 data |-> <<CurrentRow(Str(s_C2), Num(1), BaseSalary, 0)>>]))
        stored_service ==
            replace_nan(normalize_dataframe_columns(map_keys_for_fact_servicios(
                [columns |-> fact_batch_columns,
                 data |-> <<<<Num(1), Str(s_A1), Str(s_A1), Num(5), Str(<<120>>)>>>>],
                Engine(<<>>))))
    IN
    /\ store_case \in StoreCases
    /\ \/ /\ todo = <<table_name>>
          /\ business_keys_cfg \in BusinessKeyConfigs
          /\ unique_columns_cfg = <<>>
       \/ /\ todo = <<fact_table_name>>
          /\ business_keys_cfg = <<>>
          /\ unique_columns_cfg \in UniqueColumnConfigs
    /\ dimmensajero = SqlInsert(<<>>, dimension_row_dict(iterrow(stored_courier, 1),
                                                         pk_column),
                                dimmensajero_columns, pk_column, 1)
    /\ fact_schema = "script"
    /\ fact_servicios = insert_new_fact_record(<<>>, iterrow(stored_service, 1),
                                               fact_servicios_columns(fact_schema), 1, 0)
    /\ conn = <<>>
    /\ serial = 2
    /\ now = 0
    /\ pc = "idle"
    /\ error = ""
    /\ df = [columns |-> <<>>, data |-> <<>>]
    /\ i = 1
    /\ result = EmptyResult
    /\ before = <<>>
    /\ last = NoRow
    /\ prev = [df |-> [columns |-> <<>>, data |-> <<>>], pc |-> "idle"]
    /\ budget = MaxRows
    /\ dimdireccion = <<>>
    /\ source = [columns |-> <<>>, data |-> <<>>]
    /\ tables = resolver_tables \cup {"fact_servicios"}
    /\ autocommit = FALSE
    /\ etl_tracking = <<>>
    /\ run = "idle"
    /\ visited = <<>>
    /\ results = EmptyResults
    /\ caller = NoCall
    /\ run_start = [n |-> 0, dimensions |-> <<>>, etl_tracking |-> <<>>,
                    tables |-> {}, dimmensajero |-> <<>>, fact_servicios |-> <<>>]

\* load_dimension_table is called with a batch of one row
BeginPartialLoad ==
    /\ pc \in {"idle", "done", "failed"}
    /\ Head(todo) = table_name
    /\ budget >= 1
    /\ \E r \in PartialKeyRows(now) :
          df' = replace_nan(normalize_dataframe_columns(
                    [columns |-> dimension_batch_columns, data |-> <<r>>]))
    /\ budget' = budget - 1
    /\ prev' = [df |-> df, pc |-> pc]
    /\ result' = EmptyResult
    /\ before' = dimmensajero
    /\ conn' = dimmensajero
    /\ i' = 1
    /\ last' = NoRow
    /\ pc' = "loop"
    /\ error' = ""
    /\ UNCHANGED <<store_case, business_keys_cfg, dimmensajero, serial, now, fact_vars,
                   data_vars>>

\* load_fact_table is called with a batch of one row: its keys are resolved
MapPartialKeys ==
    /\ pc \in {"idle", "done", "failed"}
    /\ Head(todo) = fact_table_name
    /\ budget >= 1
    /\ \E r \in PartialFactRows :
          LET b == [columns |-> fact_batch_columns, data |-> <<r>>]
          IN  /\ source' = b
              /\ df' = map_keys_for_fact_servicios(b, Engine(dimdireccion))
    /\ budget' = budget - 1
    /\ prev' = [df |-> source, pc |-> pc]
    /\ result' = EmptyResult
    /\ before' = fact_servicios
    /\ i' = 1
    /\ last' = NoRow
    /\ pc' = "mapped"
    /\ error' = ""
    /\ UNCHANGED <<store_case, business_keys_cfg, dimmensajero, conn, serial, now,
                   fact_schema, unique_columns_cfg, dimdireccion, fact_servicios,
                   data_vars>>

\* the query of check_dimension_exists raises: the function logs a warning
\* and returns None, and the loop goes to insert_new_dimension_record.  A
\* store that has aborted the transaction refuses the INSERT; otherwise the
\* INSERT is executed.
FailedDimensionCheck ==
    /\ pc = "loop" /\ i <= Len(df.data)
    /\ LET row == iterrow(df, i)
           row_dict == dimension_row_dict(row, pk_column)
       IN  /\ where_conditions(row, business_keys) # {}
           /\ \/ /\ Raise("InternalError")
                 /\ last' = [op |-> "unchecked_error", row |-> i, matched |-> 0,
                             inserted |-> 0]
                 /\ UNCHANGED <<conn, serial>>
              \/ IF InsertRefused(row_dict, dimmensajero_columns, dimmensajero_not_null)
                 THEN /\ Raise("IntegrityError")
                      /\ last' = [op |-> "unchecked_error", row |-> i, matched |-> 0,
                                  inserted |-> 0]
                      /\ UNCHANGED <<conn, serial>>
                 ELSE /\ conn' = SqlInsert(conn, row_dict, dimmensajero_columns,
                                           pk_column, serial)
                      /\ serial' = serial + 1
                      /\ result' = [result EXCEPT !.rows_loaded = @ + 1]
                      /\ last' = [op |-> "unchecked_insert", row |-> i, matched |-> 0,
                                  inserted |-> serial]
                      /\ i' = i + 1
                      /\ UNCHANGED <<pc, error>>
    /\ UNCHANGED <<store_case, business_keys_cfg, dimmensajero, now, df,
                   before, prev, budget, fact_vars,
                   data_vars>>

\* the query of check_fact_exists raises: the function logs a warning and
\* returns None, and the loop goes to insert_new_fact_record
FailedFactCheck ==
    /\ pc = "loop" /\ i <= Len(df.data)
    /\ LET row == iterrow(df, i)
           columns == fact_servicios_columns(fact_schema)
           row_dict == fact_row_dict(row, fact_pk_column, now)
       IN  /\ where_conditions(row, unique_columns) # {}
           /\ \/ /\ Raise("InternalError")
                 /\ last' = [op |-> "unchecked_error", row |-> i, matched |-> 0,
                             inserted |-> 0]
                 /\ UNCHANGED <<conn, serial>>
              \/ IF InsertRefused(row_dict, columns, fact_servicios_not_null(fact_schema))
                 THEN /\ Raise("IntegrityError")
                      /\ last' = [op |-> "unchecked_error", row |-> i, matched |-> 0,
                                  inserted |-> 0]
                      /\ UNCHANGED <<conn, serial>>
                 ELSE /\ conn' = insert_new_fact_record(conn, row, columns, serial, now)
                      /\ serial' = serial + 1
                      /\ result' = [result EXCEPT !.rows_loaded = @ + 1]
                      /\ last' = [op |-> "unchecked_insert", row |-> i, matched |-> 0,
                                  inserted |-> serial]
                      /\ i' = i + 1
                      /\ UNCHANGED <<pc, error>>
    /\ UNCHANGED <<store_case, business_keys_cfg, dimmensajero, now, df,
                   before, prev, budget, fact_vars,
                   data_vars>>

NextKeys ==
    \/ BeginPartialLoad
    \/ /\ Head(todo) = table_name
       /\ \/ InsertNew
          \/ SkipUnchanged
          \/ ExpireAndInsert
          \/ FailedDimensionCheck
          \/ Commit
          \/ Rollback
    \/ MapPartialKeys
    \/ /\ Head(todo) = fact_table_name
       /\ \/ BeginFactLoad
          \/ SkipDuplicate
          \/ InsertFact
          \/ FailedFactCheck
          \/ CommitFact
          \/ RollbackFact

SpecKeys == InitKeys /\ [][NextKeys]_vars

\* C23: the record check_dimension_exists returned for a row is current and
\* has the row's value in every configured business key, also when the row
\* carries a value for only some of the keys.
C23_MatchOnEveryBusinessKey ==
    (Head(todo) = table_name /\ pc \in {"loop", "raise"}
        /\ last.op \in {"skip", "update"})
    => LET row == iterrow(df, last.row)
           record == RowWithKey(conn, last.matched)
       IN  /\ last.op = "skip" => IsCurrent(record)
           /\ \A k \in 1..Len(business_keys) :
                 record[FoldIdentifier(business_keys[k])]
                    = RowGet(row, normalize_column_name(business_keys[k]))

\* C29: a fact row is skipped only when the table holds a row with the same
\* value in every configured unique column; a row without a value for one
\* of them is not skipped for a match on the others.
C29_SkipOnEveryUniqueColumn ==
    (Head(todo) = fact_table_name /\ pc = "loop" /\ last.op = "skip")
    => LET row == iterrow(df, last.row)
       IN  \E k \in 1..Len(conn) : \A u \in 1..Len(unique_columns) :
              /\ InRow(normalize_column_name(unique_columns[u]), row)
              /\ RowGet(row, normalize_column_name(unique_columns[u])) # NULL
              /\ conn[k][FoldIdentifier(unique_columns[u])]
                    = RowGet(row, normalize_column_name(unique_columns[u]))

\* C30: when the existence query of a row has failed, the row is not
\* inserted and the load ends with an error.
C30_FailedCheckEndsLoad ==
    last.op \in {"unchecked_insert", "unchecked_error"}
    => /\ pc \in {"raise", "failed"}
       /\ last.inserted = 0

=============================================================================
